---- MODULE Spec2Model ----
(***************************************************************************)
(* State-machine model of the GATT attribute database lifecycle and the    *)
(* event dispatch of the BLE server wrapper (BLEAttValue, BLEService,      *)
(* BLECharacteristic, BLEServer), and of the blocking calls of the client  *)
(* role (BLEClient, BLERemoteValueAttribute).                              *)
(*                                                                         *)
(* The specifications share the variables:                                 *)
(*   SpecAtt    one local value attribute: its BLEAttValue, the            *)
(*              application calls on it and the write access callback;     *)
(*   SpecRead   the same attribute read by a peer, fragment by fragment;   *)
(*   SpecTree   the application builds the tree of services,               *)
(*              characteristics and descriptors and registers it;          *)
(*   Spec       the server while peers connect and disconnect: the         *)
(*              connected-peer table, removal, reset-and-rebuild;          *)
(*   SpecNotify the server while it notifies and indicates: sendValue and  *)
(*              the dispatch of the notify-tx events;                      *)
(*   SpecConnect the server on a stack with one connection more than the   *)
(*              peer table has slots;                                      *)
(*   SpecConc   one value while a task is inside setValue, a reader takes  *)
(*              snapshots and a task copies the value, step by step;       *)
(*   SpecVal    two values: construction from a value, setValue, append,   *)
(*              copy and move;                                             *)
(*   SpecSubscribe the server while peers subscribe to a characteristic;   *)
(*   SpecOrder  two services removed, added again and rebuilt;             *)
(*   SpecRemote the client discovers the services of a peer and writes and *)
(*              reads a remote attribute (SpecRemoteFair: under a          *)
(*              scheduler that runs a released task);                      *)
(*   SpecClient the synchronous connect() of the client and its timeout;   *)
(*   SpecSecure the same client while it connects and calls                *)
(*              secureConnection();                                        *)
(*   SpecLookup a service with characteristics of several UUIDs, started   *)
(*              and looked up by UUID;                                     *)
(*   SpecHandles the server with two characteristics, one removed, across  *)
(*              a rebuild: the handles the stack assigns.                  *)
(***************************************************************************)
EXTENDS Integers, Sequences, FiniteSets, TLC

(***************************************************************************)
(* Bounds of the model (scaled-down protocol sizes).                       *)
(***************************************************************************)
\* protocol hard limit of an attribute value (512 in the stack), scaled down
BLE_ATT_ATTR_MAX_LEN == 3
\* largest initial capacity a value is constructed with
InitLen == 1
\* ATT MTU of a connection before the MTU exchange (23 in the stack), scaled down
DefaultMtu == 2
\* largest MTU an exchange negotiates
MaxMtu == 6
\* most chunks (chained mbufs) of one write access
MaxChunks == 2
\* most services the application constructs
MaxSvcs == 1
\* most characteristics and descriptors it constructs while it builds and
\* registers the tree (SpecTree)
TreeChrs == 1
TreeDscs == 1
\* most characteristics it constructs while peers come and go (Spec)
SrvChrs == 1
\* size of the connected-peer table and of the stack's connection pool (Spec)
CONFIG_BT_NIMBLE_MAX_CONNECTIONS == 2
\* most characteristics while it notifies, and the size of the peer table of
\* that build (SpecNotify)
NotifyChrs == 1
NotifyConns == 1
\* most service definitions the stack has memory for
MaxSvcDefs == 2
\* most services while the order of their registration is observed (SpecOrder)
OrderSvcs == 2
\* payload of one write request or read response of the client's
\* connection: getMTU() - 3, scaled down (SpecRemote)
RemoteMtu == 2
\* most requests one writeValue or readValue issues before the model stops
\* following it
MaxRequests == 3
\* the UUIDs the application gives its characteristics
MaxUuids == 2
Uuids == 1 .. MaxUuids
\* characteristics of the service of the getCharacteristic scenario
LookupChrs == 2
\* most services a discovery reports
MaxRemoteSvcs == 1
\* longest value handed in while tasks interleave on the value, and longest
\* value a temporary is constructed from (SpecConc, SpecVal)
TaskLen == 2

Byte == 0 .. 1

Min(a, b) == IF a < b THEN a ELSE b

\* the byte patterns handed in: alternating bytes and all-zero bytes
Patterns == {[i \in 1 .. BLE_ATT_ATTR_MAX_LEN + 1 |-> i % 2],
             [i \in 1 .. BLE_ATT_ATTR_MAX_LEN + 1 |-> 0]}

\* byte strings the application or a peer hands in: the prefixes of the
\* patterns, up to one byte more than any value may hold
Inputs == {SubSeq(p, 1, n) : p \in Patterns, n \in 0 .. BLE_ATT_ATTR_MAX_LEN + 1}

\* the values handed in while tasks interleave, and to the value constructor
TaskInputs == {v \in Inputs : Len(v) <= TaskLen}

\* the follow-up chunks of a chained write
Chunks == {c \in Inputs : Len(c) <= 2}

VARIABLES
  \* ---- BLEAttValue of the attribute (SpecAtt)
  m_attr_value,     \* the buffer: [ptr |-> "heap" | "null", mem |-> bytes allocated]
  m_attr_len,       \* current length
  m_attr_max_len,   \* configured maximum length
  m_capacity,       \* capacity the object believes the buffer has
  heapOverflow,     \* a memcpy wrote past the allocation
  \* ---- the peer connection and its long read in progress (SpecAtt)
  att_mtu,          \* ble_att_mtu(connHandle)
  mtuExchanged,     \* the one MTU exchange of the connection has happened
  rd,               \* the read the peer is performing, fragment by fragment
  \* ---- tasks inside a call on the BLEAttValue, and a second value (SpecConc, SpecVal)
  wr,               \* the task inside setValue: where it is, its locals
  cp,               \* the task inside deepCopy of the attribute into dst
  dst,              \* a second BLEAttValue: the target of a copy, a temporary
  \* ---- the client role (SpecRemote, SpecClient)
  cl,               \* BLEClient and the remote attribute it reads and writes
  op,               \* the application task inside a client call: where it is, its locals
  gattc,            \* the stack: the link, the procedures and events it has in flight
  \* ---- BLEServer and the attribute tree (Spec)
  m_gattsStarted,   \* BLEServer::start() has run since the last reset
  m_svcChanged,     \* the tree changed after the server was started
  m_svcVec,         \* the server's services, in order
  m_connectedPeers, \* the connected-peer table: a handle or NONE per slot
  services,         \* the BLEService objects
  chars,            \* the BLECharacteristic objects
  descs,            \* the BLEDescriptor objects
  \* ---- the stack (Spec)
  conns,            \* handles of the open peer connections
  svcDefs,          \* service definitions handed to ble_gatts_add_svcs
  attTab,           \* the registered attributes; an attribute's handle is its index
  upd,              \* characteristics reported by ble_gatts_chr_updated, not yet sent
  indq,             \* indications sent and not yet acknowledged
  \* ---- the operation that ran last
  last

tskVars == <<wr, cp, dst>>

cliVars == <<cl, op, gattc>>

\* everything but the client role
srvSide == <<m_attr_value, m_attr_len, m_attr_max_len, m_capacity, heapOverflow,
             att_mtu, mtuExchanged, rd, wr, cp, dst, m_gattsStarted, m_svcChanged,
             m_svcVec, m_connectedPeers, services, chars, descs, conns, svcDefs,
             attTab, upd, indq>>

valVars == <<m_attr_value, m_attr_len, m_attr_max_len, m_capacity, heapOverflow,
             att_mtu, mtuExchanged, rd, tskVars, cliVars>>

srvVars == <<m_gattsStarted, m_svcChanged, m_svcVec, m_connectedPeers, services,
             chars, descs, conns, svcDefs, attTab, upd, indq>>

vars == <<valVars, srvVars, last>>

(***************************************************************************)
(* BLEAttValue                                                             *)
(***************************************************************************)
NullBuf == [ptr |-> "null", mem |-> <<>>]

\* the object's fields as one record
AttVal == [m_attr_value |-> m_attr_value, m_attr_len |-> m_attr_len,
           m_attr_max_len |-> m_attr_max_len, m_capacity |-> m_capacity]

\* the value an attribute holds: the first m_attr_len bytes of the buffer
Data(v) == SubSeq(v.m_attr_value.mem, 1, Min(v.m_attr_len, Len(v.m_attr_value.mem)))

\* BLEAttValue::BLEAttValue(init_len, max_len): calloc(init_len + 1, 1)
Construct(init_len, max_len, callocOk) ==
  [m_attr_value   |-> IF callocOk THEN [ptr |-> "heap", mem |-> [i \in 1 .. init_len + 1 |-> 0]]
                      ELSE NullBuf,
   m_attr_len     |-> 0,
   m_attr_max_len |-> Min(BLE_ATT_ATTR_MAX_LEN, max_len),
   m_capacity     |-> init_len]

\* memcpy(res + at, value, len) into the allocation res
MemWrite(mem, at, value) ==
  LET n == Len(value)
      e == IF at + n > Len(mem) THEN at + n ELSE Len(mem)
  IN [i \in 1 .. e |-> IF i > at /\ i <= at + n THEN value[i - at]
                       ELSE IF i <= Len(mem) THEN mem[i] ELSE 0]

\* realloc(m_attr_value, n): the old bytes are kept
Realloc(buf, n) ==
  [ptr |-> "heap", mem |-> [i \in 1 .. n |-> IF i <= Len(buf.mem) THEN buf.mem[i] ELSE 0]]

\* append without the check of the new length against the maximum
append_NoMaxCheck(v, value, reallocOk) ==
  LET len     == Len(value)
      new_len == v.m_attr_len + len
      grow    == new_len > v.m_capacity
      res     == IF grow
                 THEN (IF reallocOk THEN Realloc(v.m_attr_value, new_len + 1) ELSE NullBuf)
                 ELSE v.m_attr_value
      cap     == IF grow THEN new_len ELSE v.m_capacity
  IN IF len = 0 THEN [v |-> v, log |-> "none", over |-> FALSE]
     ELSE IF res.ptr = "null"
       THEN [v |-> [v EXCEPT !.m_capacity = cap], log |-> "Failed to realloc append",
             over |-> FALSE]
     ELSE [v    |-> [v EXCEPT !.m_attr_value = [ptr |-> "heap",
                                                mem |-> MemWrite(res.mem, v.m_attr_len, value)],
                              !.m_attr_len   = new_len,
                              !.m_capacity   = cap],
           log  |-> "none",
           over |-> new_len > Len(res.mem)]

\* BLEAttValue::append(value, len); reallocOk: realloc returns a block.
\* Result: the object after the call, the error logged, and whether the
\* memcpy ran past the allocation.
append(v, value, reallocOk) ==
  LET len     == Len(value)
      new_len == v.m_attr_len + len
      grow    == new_len > v.m_capacity
      res     == IF grow
                 THEN (IF reallocOk THEN Realloc(v.m_attr_value, new_len + 1) ELSE NullBuf)
                 ELSE v.m_attr_value
      cap     == IF grow THEN new_len ELSE v.m_capacity
  IN IF len = 0 THEN [v |-> v, log |-> "none", over |-> FALSE]
     ELSE IF new_len > v.m_attr_max_len THEN [v |-> v, log |-> "val > max", over |-> FALSE]
     ELSE IF res.ptr = "null"
       THEN [v |-> [v EXCEPT !.m_capacity = cap], log |-> "Failed to realloc append",
             over |-> FALSE]
     ELSE [v    |-> [v EXCEPT !.m_attr_value = [ptr |-> "heap",
                                                mem |-> MemWrite(res.mem, v.m_attr_len, value)],
                              !.m_attr_len   = new_len,
                              !.m_capacity   = cap],
           log  |-> "none",
           over |-> new_len > Len(res.mem)]

\* memcmp(m_attr_value, value, len) == 0; ub: what the comparison yields when
\* it reads a null pointer or past the allocation
MemcmpEq(buf, value, ub) ==
  IF Len(value) = 0 THEN TRUE
  ELSE IF buf.ptr = "null" \/ Len(value) > Len(buf.mem) THEN ub
  ELSE SubSeq(buf.mem, 1, Len(value)) = value

\* BLEAttValue::setValue(value, len)
setValue(v, value, reallocOk, ub) ==
  LET r == append([v EXCEPT !.m_attr_len = 0], value, reallocOk)
  IN [v    |-> r.v,
      log  |-> r.log,
      over |-> r.over,
      ret  |-> MemcmpEq(r.v.m_attr_value, value, ub) /\ r.v.m_attr_len = Len(value)]

\* BLEAttValue::BLEAttValue(value, len, max_len): the default constructor
\* with init_len = len, then memcpy and m_attr_len = len
ConstructValue(value, max_len, callocOk) ==
  LET v == Construct(Len(value), max_len, callocOk)
  IN IF v.m_attr_value.ptr = "null" THEN v
     ELSE [v EXCEPT !.m_attr_value = [ptr |-> "heap",
                                      mem |-> MemWrite(v.m_attr_value.mem, 0, value)],
                    !.m_attr_len   = Len(value)]

\* what a read of n bytes through the pointer buf yields: the bytes of a live
\* block; anything when the pointer is null, the block was freed or the read
\* runs past its end
ReadBuf(buf, n) ==
  IF buf.ptr = "heap" /\ n <= Len(buf.mem) THEN {SubSeq(buf.mem, 1, n)}
  ELSE [1 .. n -> Byte]

\* the critical section of deepCopy: the source's fields, and the bytes the
\* memcpy of m_attr_len + 1 bytes read, into the block res
CopyInto(res, source, bytes) ==
  [m_attr_value   |-> [ptr |-> "heap", mem |-> MemWrite(res.mem, 0, bytes)],
   m_attr_max_len |-> source.m_attr_max_len,
   m_attr_len     |-> source.m_attr_len,
   m_capacity     |-> source.m_capacity]

\* BLEAttValue::deepCopy(source) on the object v, run without interruption
deepCopy(v, source, reallocOk, bytes) ==
  LET res == Realloc(v.m_attr_value, source.m_capacity + 1)
  IN IF ~reallocOk THEN [v |-> v, log |-> "Failed to realloc deepCopy", over |-> FALSE]
     ELSE [v    |-> CopyInto(res, source, bytes),
           log  |-> "none",
           over |-> source.m_attr_len + 1 > Len(res.mem)]

\* BLEAttValue::operator=(BLEAttValue &&source): what this object and the
\* source become
MoveAssign(source) ==
  [v |-> source, source |-> [source EXCEPT !.m_attr_value = NullBuf]]

(***************************************************************************)
(* BLEServer::handleGattEvent                                              *)
(***************************************************************************)
BLE_HS_CONN_HANDLE_NONE == 65535
BLE_ATT_ERR_INSUFFICIENT_RES == 17
BLE_ATT_ERR_INVALID_ATTR_VALUE_LEN == 13
BLE_ATT_ERR_INVALID_OFFSET == 7

\* om_pkthdr_len of the mbuf the stack hands to a read access: the response
\* packet itself for offset 0 (it carries a user header), a bare attribute
\* packet for the follow-up of a long read
PktHdrLen(offset) == IF offset = 0 THEN 16 ELSE 8

\* read access: is readEvent (onRead) called
ReadCallsOnRead(connHandle, om_pkthdr_len, size, mtu) ==
  /\ connHandle # BLE_HS_CONN_HANDLE_NONE
  /\ (om_pkthdr_len > 8 \/ size <= mtu - 3)

\* the chunk loop without its length check
RECURSIVE WriteCopy_NoLenCheck(_, _, _)
WriteCopy_NoLenCheck(buf, next, maxLen) ==
  IF next = <<>> THEN [rc |-> 0, buf |-> buf]
  ELSE WriteCopy_NoLenCheck(buf \o Head(next), Tail(next), maxLen)

\* write access: the loop over the chunks after the first, copying each into
\* buf; 0 or the length error
RECURSIVE WriteCopy(_, _, _)
WriteCopy(buf, next, maxLen) ==
  IF next = <<>> THEN [rc |-> 0, buf |-> buf]
  ELSE IF Len(buf) + Len(Head(next)) > maxLen
    THEN [rc |-> BLE_ATT_ERR_INVALID_ATTR_VALUE_LEN, buf |-> buf]
  ELSE WriteCopy(buf \o Head(next), Tail(next), maxLen)

\* write access: the first chunk, then the others
WriteAccess(om, maxLen) ==
  IF Len(Head(om)) > maxLen
  THEN [rc |-> BLE_ATT_ERR_INVALID_ATTR_VALUE_LEN, buf |-> <<>>]
  ELSE WriteCopy(Head(om), Tail(om), maxLen)

\* chains of 1 .. n chunks
RECURSIVE Chains(_)
Chains(n) ==
  IF n = 1 THEN {<<c>> : c \in Inputs}
  ELSE Chains(n - 1) \cup {Append(ch, c) : ch \in {x \in Chains(n - 1) : Len(x) = n - 1},
                                          c \in Chunks}

\* the write accesses a peer may send
WriteChains == Chains(MaxChunks)

\* values of which only the length matters (zero bytes)
Zeros == {v \in Inputs : \A i \in 1 .. Len(v) : v[i] = 0}

RECURSIVE Flat(_)
Flat(om) == IF Len(om) = 0 THEN <<>> ELSE Head(om) \o Flat(Tail(om))

NoRead == [open |-> FALSE, offset |-> 0, frags |-> 0, onReadAt |-> {}]

\* the record of the operation that ran last: its kind, the bytes handed in
\* (om: as the chunks of a write access), what it returned and logged, and
\* how often it called the callbacks
NoOp == [op |-> "init", arg |-> <<>>, om |-> <<>>, ret |-> TRUE, rc |-> 0,
         log |-> "none", onRead |-> 0, onWrite |-> 0]

(***************************************************************************)
(* The server's objects                                                    *)
(***************************************************************************)
NIMBLE_ATT_REMOVE_HIDE == 1
NIMBLE_ATT_REMOVE_DELETE == 2
BLE_GATT_SVC_TYPE_PRIMARY == 1
BLE_HS_ENOTCONN == 7
BLE_HS_ETIMEOUT == 13
BLE_HS_EDONE == 14
BLE_HS_EBUSY == 15
BLE_HS_ERR_HCI_BASE == 512
BLE_ERR_PINKEY_MISSING == 6

\* the objects the application may construct, the slots of the peer table
\* and the connection handles of the stack's pool, which has the table's size
SvcIds == DOMAIN services
ChrIds == DOMAIN chars
DscIds == DOMAIN descs
Slots == DOMAIN m_connectedPeers
ConnHandles == DOMAIN m_connectedPeers

\* an object is "none" (not constructed), "live" or "freed" (deleted)
\* BLEService: chrp is m_pSvcDef->characteristics ("null", "valid" or
\* "dangling" once the array was deleted and not replaced), def the compiled
\* array it points at
NoSvc == [st |-> "none", removed |-> 0, m_handle |-> 0, type |-> 0,
          chrp |-> "null", def |-> <<>>, m_vChars |-> <<>>]
NoChr == [st |-> "none", removed |-> 0, m_handle |-> 0, svc |-> 0, uuid |-> 0,
          m_vDescriptors |-> <<>>]
NoDsc == [st |-> "none", removed |-> 0, m_handle |-> 0, chr |-> 0]

Contains(seq, x) == \E i \in 1 .. Len(seq) : seq[i] = x

\* vector::erase of the element x
Erase(seq, x) == SelectSeq(seq, LAMBDA y : y # x)

MinOf(S) == CHOOSE x \in S : \A y \in S : x <= y
MaxOf(S) == CHOOSE x \in S : \A y \in S : x >= y

\* the first object not yet constructed
Fresh(objs, ids) == IF \E i \in ids : objs[i].st = "none"
                    THEN {MinOf({i \in ids : objs[i].st = "none"})} ELSE {}

\* BLEServer::serviceChanged(): the new value of m_svcChanged
serviceChanged(started, changed) == IF started THEN TRUE ELSE changed

\* getConnectedCount() answering 0 whatever the table holds
getConnectedCount_Zero(peers) == 0

\* BLEServer::getConnectedCount()
getConnectedCount(peers) ==
  Cardinality({i \in Slots : peers[i] # BLE_HS_CONN_HANDLE_NONE})

\* BLEServer::getPeerDevices(): the handles in the table, in slot order
getPeerDevices(peers) ==
  LET used == {i \in Slots : peers[i] # BLE_HS_CONN_HANDLE_NONE}
      RECURSIVE From(_)
      From(i) == IF i > Len(peers) THEN <<>>
                 ELSE (IF i \in used THEN <<peers[i]>> ELSE <<>>) \o From(i + 1)
  IN From(1)

\* BLEServer::getPeerInfoByHandle(): the connection whose descriptor
\* ble_gap_conn_find fills in, or the sentinel for an empty BLEConnInfo
getPeerInfoByHandle(open, connHandle) ==
  IF connHandle \in open THEN connHandle ELSE BLE_HS_CONN_HANDLE_NONE

\* BLEServer::getPeerInfo(uint8_t index): the loop counts the connected
\* peers it has passed and, at the index-th, reads the table at the count
\* (slot count + 1 of the sequence)
getPeerInfo(peers, open, index) ==
  LET RECURSIVE Loop(_, _)
      Loop(i, count) ==
        IF i > Len(peers) THEN BLE_HS_CONN_HANDLE_NONE
        ELSE IF peers[i] # BLE_HS_CONN_HANDLE_NONE
             THEN IF count = index
                  THEN getPeerInfoByHandle(open, peers[count + 1])
                  ELSE Loop(i + 1, count + 1)
             ELSE Loop(i + 1, count)
  IN IF index >= Len(peers) THEN BLE_HS_CONN_HANDLE_NONE ELSE Loop(1, 0)

\* the first free slot, but no slot for a handle: a disconnect finds none
FirstSlot_FreeOnly(peers, h) ==
  IF h = BLE_HS_CONN_HANDLE_NONE /\ \E i \in Slots : peers[i] = h
  THEN MinOf({i \in Slots : peers[i] = h}) ELSE 0

\* the first slot holding h, or 0
FirstSlot(peers, h) ==
  IF \E i \in Slots : peers[i] = h THEN MinOf({i \in Slots : peers[i] = h}) ELSE 0

\* BLEService::start(): the compiled characteristic array, removed
\* characteristics and descriptors left out
Compile(sv) ==
  LET live == SelectSeq(sv.m_vChars, LAMBDA c : chars[c].removed = 0)
  IN [i \in 1 .. Len(live) |->
        [chr  |-> live[i],
         dscs |-> SelectSeq(chars[live[i]].m_vDescriptors,
                            LAMBDA d : descs[d].removed = 0)]]

\* the arrays new ble_gatt_chr_def[numChrs + 1]{} and
\* new ble_gatt_dsc_def[numDscs + 1]{} as start() fills them from the
\* compiled entries comp: the last entry of each stays zeroed (0), and a
\* characteristic without live descriptors has no descriptor array
WithSentinels(comp) ==
  [i \in 1 .. Len(comp) + 1 |->
     IF i > Len(comp) THEN [chr |-> 0, dscs |-> <<>>]
     ELSE [chr  |-> comp[i].chr,
           dscs |-> IF Len(comp[i].dscs) = 0 THEN <<>>
                    ELSE Append(comp[i].dscs, 0)]]

\* the array m_pSvcDef->characteristics points at, as the stack reads it
Record(sv) == IF sv.chrp = "null" THEN <<>> ELSE WithSentinels(sv.def)

\* BLEService::start() of service s whose object is sv; changed is the
\* server's m_svcChanged, defs the stack's definitions, out what the stack
\* answers: "ok", or the call that fails
ServiceStart(s, sv, changed, defs, out) ==
  IF sv.chrp # "null" /\ ~changed
  THEN [sv |-> sv, defs |-> defs, ret |-> TRUE, calls |-> <<>>, ub |-> FALSE]
  ELSE LET comp == Compile(sv)
           sv1  == [sv EXCEPT !.chrp = IF Len(comp) > 0 THEN "valid"
                                       ELSE IF sv.chrp = "null" THEN "null"
                                       ELSE "dangling",
                              !.def  = IF Len(comp) > 0 THEN comp ELSE sv.def,
                              !.type = BLE_GATT_SVC_TYPE_PRIMARY]
           ub   == sv.chrp = "dangling" \/ sv1.chrp = "dangling"
       IN IF out = "count"
          THEN [sv |-> sv1, defs |-> defs, ret |-> FALSE,
                calls |-> <<"ble_gatts_count_cfg">>, ub |-> ub]
          ELSE IF out = "add" \/ Len(defs) >= MaxSvcDefs
          THEN [sv |-> sv1, defs |-> defs, ret |-> FALSE,
                calls |-> <<"ble_gatts_count_cfg", "ble_gatts_add_svcs">>, ub |-> ub]
          ELSE [sv |-> sv1, defs |-> Append(defs, s), ret |-> TRUE,
                calls |-> <<"ble_gatts_count_cfg", "ble_gatts_add_svcs">>, ub |-> ub]

\* what the stack may answer to a service registration: it takes no new
\* definition while a connection is open
StartOutcomes == IF conns = {} THEN {"ok", "count", "add"} ELSE {"count", "add"}

\* ble_gatts_start(): the attributes of the definitions, in order
ChrEntries(cd) ==
  <<[kind |-> "decl", id |-> cd.chr], [kind |-> "chr", id |-> cd.chr]>>
    \o [i \in 1 .. Len(cd.dscs) |-> [kind |-> "dsc", id |-> cd.dscs[i]]]

SvcEntries(s) ==
  <<[kind |-> "svc", id |-> s]>>
    \o Flat([i \in 1 .. Len(services[s].def) |-> ChrEntries(services[s].def[i])])

Register(defs) == Flat([i \in 1 .. Len(defs) |-> SvcEntries(defs[i])])

\* the handles of an object in the attribute table
Handles(tab, kind, id) == {h \in 1 .. Len(tab) : tab[h].kind = kind /\ tab[h].id = id}

\* the server and the stack after construction
InitSrv(nSvc, nChr, nDsc, nConn) ==
  /\ m_gattsStarted = FALSE
  /\ m_svcChanged = FALSE
  /\ m_svcVec = <<>>
  /\ m_connectedPeers = [i \in 1 .. nConn |-> BLE_HS_CONN_HANDLE_NONE]
  /\ services = [s \in 1 .. nSvc |-> NoSvc]
  /\ chars = [c \in 1 .. nChr |-> NoChr]
  /\ descs = [d \in 1 .. nDsc |-> NoDsc]
  /\ conns = {}
  /\ svcDefs = <<>>
  /\ attTab = <<>>
  /\ upd = {}
  /\ indq = {}

(***************************************************************************)
(* The client role: BLEClient and BLERemoteValueAttribute                  *)
(***************************************************************************)
BLE_ATT_ERR_ATTR_NOT_LONG == 11
BLE_ATT_ERR_INSUFFICIENT_AUTHEN == 5
BLE_ATT_ERR_INSUFFICIENT_AUTHOR == 8
BLE_ATT_ERR_INSUFFICIENT_ENC == 15

\* BLE_HS_ATT_ERR(x): an ATT error code as a host status
BLE_HS_ATT_ERR(x) == 256 + x

\* the statuses the switch in writeValue and readValue answers with pairing
InsufficientSecurity ==
  {BLE_HS_ATT_ERR(BLE_ATT_ERR_INSUFFICIENT_AUTHEN),
   BLE_HS_ATT_ERR(BLE_ATT_ERR_INSUFFICIENT_AUTHOR),
   BLE_HS_ATT_ERR(BLE_ATT_ERR_INSUFFICIENT_ENC)}

\* the statuses with which the peer or the stack ends a request
EndStatuses ==
  {0, BLE_HS_EDONE, BLE_HS_ATT_ERR(BLE_ATT_ERR_ATTR_NOT_LONG),
   BLE_HS_ATT_ERR(BLE_ATT_ERR_INSUFFICIENT_AUTHEN), BLE_HS_ETIMEOUT}

\* the application task outside any client call. Inside one: kind and pc say
\* where it is; retryCount, length, rc and value are the locals of the call;
\* flags and released are its BLETaskData; requests, retries and secured
\* count the requests issued, those issued because of "attribute not long",
\* and the calls of secureConnection; timeout and cancel: the taskWait of
\* connect() ran out of time, ble_gap_conn_cancel was called; encOk: an
\* encryption-change event with status 0 came during secureConnection()
NoCall == [kind |-> "none", pc |-> "idle", retryCount |-> 0, length |-> 0, rc |-> 0,
           value |-> 0, flags |-> 0, released |-> FALSE,
           requests |-> 0, retries |-> 0, secured |-> 0,
           timeout |-> FALSE, cancel |-> FALSE, encOk |-> FALSE]

\* the record of the client call that returned last, or of the callback that
\* ran last: pending counts the requests of the call the stack still has in
\* flight when it returns; timeout: taskWait ran out of time; cancel:
\* ble_gap_conn_cancel was called; encOk: an encryption-change event with
\* status 0 came during the call
NoCliOp == [op |-> "init", ret |-> TRUE, rc |-> 0, value |-> 0, requests |-> 0,
            retries |-> 0, secured |-> 0, pending |-> 0, ub |-> FALSE,
            timeout |-> FALSE, cancel |-> FALSE, encOk |-> FALSE]

\* the client after construction: m_value is the cached value of the remote
\* attribute (its length), m_svcVec the number of remote services found,
\* deleted: BLEDevice::deleteClient has destroyed the client
InitCli ==
  /\ cl = [m_connHandle |-> BLE_HS_CONN_HANDLE_NONE, m_lastErr |-> 0, m_value |-> 0,
           m_pTaskData |-> FALSE, m_svcVec |-> 0, exchangeMTU |-> TRUE,
           deleteOnConnectFail |-> FALSE, deleted |-> FALSE]
  /\ op = NoCall
  /\ gattc = [up |-> FALSE, pend |-> {}]

\* no setValue under way; old is the value the attribute held when the
\* call under way began
NoTask == [pc |-> "idle", value |-> <<>>, old |-> <<>>, res |-> NullBuf, new_len |-> 0]

\* no deepCopy under way
NoCopy == [pc |-> "idle", res |-> NullBuf]

InitTsk ==
  /\ wr = NoTask
  /\ cp = NoCopy
  /\ dst = Construct(InitLen, BLE_ATT_ATTR_MAX_LEN, TRUE)

SetAtt(v) ==
  /\ m_attr_value' = v.m_attr_value
  /\ m_attr_len' = v.m_attr_len
  /\ m_attr_max_len' = v.m_attr_max_len
  /\ m_capacity' = v.m_capacity

InitAtt ==
  /\ \E init_len \in 0 .. InitLen, max_len \in 1 .. BLE_ATT_ATTR_MAX_LEN + 1,
        callocOk \in BOOLEAN :
       /\ init_len <= max_len
       /\ LET v == Construct(init_len, max_len, callocOk)
          IN /\ m_attr_value = v.m_attr_value
             /\ m_attr_len = v.m_attr_len
             /\ m_attr_max_len = v.m_attr_max_len
             /\ m_capacity = v.m_capacity
  /\ heapOverflow = FALSE
  /\ att_mtu = DefaultMtu
  /\ mtuExchanged = FALSE
  /\ rd = NoRead
  /\ InitTsk
  /\ InitCli
  /\ last = NoOp
  /\ InitSrv(0, 0, 0, 0)

\* the application task calls setValue(value, len) on the attribute
AppSetValue ==
  \E value \in Inputs, reallocOk \in BOOLEAN, ub \in BOOLEAN :
    LET r == setValue(AttVal, value, reallocOk, ub)
    IN /\ SetAtt(r.v)
       /\ heapOverflow' = (heapOverflow \/ r.over)
       /\ last' = [NoOp EXCEPT !.op = "setValue", !.arg = value, !.ret = r.ret,
                               !.log = r.log]
       /\ UNCHANGED <<att_mtu, mtuExchanged, rd, srvVars, tskVars, cliVars>>

\* the application task appends to the value
AppAppend ==
  \E value \in Inputs, reallocOk \in BOOLEAN :
    LET r == append(AttVal, value, reallocOk)
    IN /\ SetAtt(r.v)
       /\ heapOverflow' = (heapOverflow \/ r.over)
       /\ last' = [NoOp EXCEPT !.op = "append", !.arg = value, !.log = r.log]
       /\ UNCHANGED <<att_mtu, mtuExchanged, rd, srvVars, tskVars, cliVars>>

\* the application task replaces the value while a peer reads it (only the
\* length matters to the read path)
AppResize ==
  \E value \in Zeros, reallocOk \in BOOLEAN, ub \in BOOLEAN :
    LET r == setValue(AttVal, value, reallocOk, ub)
    IN /\ SetAtt(r.v)
       /\ heapOverflow' = (heapOverflow \/ r.over)
       /\ last' = [NoOp EXCEPT !.op = "setValue", !.arg = value, !.ret = r.ret,
                               !.log = r.log]
       /\ UNCHANGED <<att_mtu, mtuExchanged, rd, srvVars, tskVars, cliVars>>

\* the connection's MTU exchange (once per connection)
MtuExchange ==
  /\ ~mtuExchanged
  /\ \E mtu \in DefaultMtu .. MaxMtu : att_mtu' = mtu
  /\ mtuExchanged' = TRUE
  /\ last' = [NoOp EXCEPT !.op = "mtu"]
  /\ UNCHANGED <<m_attr_value, m_attr_len, m_attr_max_len, m_capacity, heapOverflow, rd,
                 srvVars, tskVars, cliVars>>

\* one read access callback for the peer's request at `offset`; the stack
\* then answers with the bytes from offset on, at most mtu - 1 of them
ReadFragment(offset, frag, onReadAt, mbufOk) ==
  LET size   == m_attr_len
      called == ReadCallsOnRead(1, PktHdrLen(offset), size, att_mtu)
      rc     == IF mbufOk THEN 0 ELSE BLE_ATT_ERR_INSUFFICIENT_RES
      err    == IF rc # 0 THEN rc
                ELSE IF size < offset THEN BLE_ATT_ERR_INVALID_OFFSET ELSE 0
      sent   == IF err # 0 THEN 0 ELSE Min(size - offset, att_mtu - 1)
      at     == IF called THEN onReadAt \cup {frag} ELSE onReadAt
  IN /\ rd' = [open     |-> err = 0 /\ sent = att_mtu - 1,
               offset   |-> offset + sent,
               frags    |-> IF err = 0 THEN frag ELSE frag - 1,
               onReadAt |-> at]
     /\ last' = [NoOp EXCEPT !.op = "read", !.rc = err,
                             !.onRead = IF called THEN 1 ELSE 0]
     /\ UNCHANGED <<m_attr_value, m_attr_len, m_attr_max_len, m_capacity, heapOverflow,
                    att_mtu, mtuExchanged, srvVars, tskVars, cliVars>>

\* the peer sends a read request: the first fragment of a read
PeerRead ==
  \E mbufOk \in BOOLEAN : ReadFragment(0, 1, {}, mbufOk)

\* the peer continues its long read with a read-blob request
PeerReadBlob ==
  /\ rd.open
  /\ \E mbufOk \in BOOLEAN : ReadFragment(rd.offset, rd.frags + 1, rd.onReadAt, mbufOk)

\* the stack reads the value itself (connection handle NONE)
InternalRead ==
  /\ last' = [NoOp EXCEPT !.op = "internal",
                          !.onRead = IF ReadCallsOnRead(BLE_HS_CONN_HANDLE_NONE, 16,
                                                        m_attr_len, att_mtu)
                                     THEN 1 ELSE 0]
  /\ UNCHANGED <<valVars, srvVars>>

\* a write access: the chunks are reassembled, then writeEvent stores the
\* value with setValue, whose result it ignores, and calls onWrite
PeerWrite ==
  \E om \in WriteChains, reallocOk \in BOOLEAN :
    LET w == WriteAccess(om, m_attr_max_len)
        r == setValue(AttVal, w.buf, reallocOk, FALSE)
    IN /\ IF w.rc = 0
          THEN /\ SetAtt(r.v)
               /\ heapOverflow' = (heapOverflow \/ r.over)
          ELSE UNCHANGED <<m_attr_value, m_attr_len, m_attr_max_len, m_capacity,
                           heapOverflow>>
       /\ last' = [NoOp EXCEPT !.op = "write", !.arg = Flat(om), !.om = om,
                               !.rc = w.rc,
                               !.log = IF w.rc = 0 THEN r.log ELSE "none",
                               !.onWrite = IF w.rc = 0 THEN 1 ELSE 0]
       /\ UNCHANGED <<att_mtu, mtuExchanged, rd, srvVars, tskVars, cliVars>>

NextAtt ==
  \/ AppSetValue
  \/ AppAppend
  \/ PeerWrite

\* one attribute, the application's calls and the peer's writes
SpecAtt == InitAtt /\ [][NextAtt]_vars

NextRead ==
  \/ AppResize
  \/ MtuExchange
  \/ PeerRead
  \/ PeerReadBlob
  \/ InternalRead

\* one attribute read by a peer, fragment by fragment
SpecRead == InitAtt /\ [][NextRead]_vars

(***************************************************************************)
(* Tasks inside a call on the value; a second value                        *)
(***************************************************************************)
\* setValue enters: it clears the length, outside any critical section
SetValueBegin ==
  /\ wr.pc = "idle"
  /\ \E value \in TaskInputs :
       wr' = [NoTask EXCEPT !.pc = "append", !.value = value, !.old = Data(AttVal)]
  /\ last' = [NoOp EXCEPT !.op = "setValueBegin"]
  /\ m_attr_len' = 0
  /\ UNCHANGED <<m_attr_value, m_attr_max_len, m_capacity, heapOverflow, att_mtu,
                 mtuExchanged, rd, cp, dst, srvVars, cliVars>>

\* setValue returns: the comparison of the buffer buf with the value
SetValueReturn(buf, len, log, ub) ==
  /\ wr' = NoTask
  /\ last' = [NoOp EXCEPT !.op = "setValue", !.arg = wr.value, !.log = log,
                          !.ret = MemcmpEq(buf, wr.value, ub) /\ len = Len(wr.value)]

\* append up to its critical section: the checks, the realloc, the capacity;
\* moved: realloc returned another block and freed the one m_attr_value
\* still points to
AppendPrepare ==
  /\ wr.pc = "append"
  /\ \E reallocOk \in BOOLEAN, moved \in BOOLEAN, ub \in BOOLEAN :
       LET len     == Len(wr.value)
           new_len == m_attr_len + len
           grow    == new_len > m_capacity
       IN IF len = 0
          THEN /\ SetValueReturn(m_attr_value, m_attr_len, "none", ub)
               /\ UNCHANGED <<m_attr_value, m_capacity>>
          ELSE IF new_len > m_attr_max_len
          THEN /\ SetValueReturn(m_attr_value, m_attr_len, "val > max", ub)
               /\ UNCHANGED <<m_attr_value, m_capacity>>
          ELSE IF grow /\ ~reallocOk
          THEN /\ SetValueReturn(m_attr_value, m_attr_len, "Failed to realloc append", ub)
               /\ m_capacity' = new_len
               /\ UNCHANGED m_attr_value
          ELSE /\ wr' = [wr EXCEPT !.pc = "critical", !.new_len = new_len,
                                   !.res = IF grow THEN Realloc(m_attr_value, new_len + 1)
                                           ELSE m_attr_value]
               /\ m_capacity' = IF grow THEN new_len ELSE m_capacity
               /\ m_attr_value' = IF grow /\ moved
                                  THEN [m_attr_value EXCEPT !.ptr = "freed"]
                                  ELSE m_attr_value
               /\ last' = [NoOp EXCEPT !.op = "appendPrepare"]
  /\ UNCHANGED <<m_attr_len, m_attr_max_len, heapOverflow, att_mtu, mtuExchanged, rd,
                 cp, dst, srvVars, cliVars>>

\* the critical section of append, and the return of setValue
AppendCommit ==
  /\ wr.pc = "critical"
  /\ \E ub \in BOOLEAN :
       LET buf == [ptr |-> "heap", mem |-> MemWrite(wr.res.mem, m_attr_len, wr.value)]
       IN /\ m_attr_value' = buf
          /\ m_attr_len' = wr.new_len
          /\ heapOverflow' = (heapOverflow \/ wr.new_len > Len(wr.res.mem))
          /\ SetValueReturn(buf, wr.new_len, "none", ub)
  /\ UNCHANGED <<m_attr_max_len, m_capacity, att_mtu, mtuExchanged, rd, cp, dst, srvVars, cliVars>>

\* a reader takes its snapshot of the value in the critical section of the
\* read access
ReadSnapshot ==
  /\ \E bytes \in ReadBuf(m_attr_value, m_attr_len) :
       last' = [NoOp EXCEPT !.op = "read", !.arg = bytes]
  /\ UNCHANGED <<valVars, srvVars>>

\* deepCopy of the attribute into dst, up to its critical section: the
\* realloc for the capacity the source has now
CopyRealloc ==
  /\ cp.pc = "idle"
  /\ \E reallocOk \in BOOLEAN :
       IF reallocOk
       THEN /\ cp' = [pc |-> "critical", res |-> Realloc(dst.m_attr_value, m_capacity + 1)]
            /\ last' = [NoOp EXCEPT !.op = "copyRealloc"]
       ELSE /\ cp' = NoCopy
            /\ last' = [NoOp EXCEPT !.op = "deepCopy", !.log = "Failed to realloc deepCopy"]
  /\ UNCHANGED <<m_attr_value, m_attr_len, m_attr_max_len, m_capacity, heapOverflow,
                 att_mtu, mtuExchanged, rd, wr, dst, srvVars, cliVars>>

\* the critical section of deepCopy
CopyCommit ==
  /\ cp.pc = "critical"
  /\ \E bytes \in ReadBuf(m_attr_value, m_attr_len + 1) :
       dst' = CopyInto(cp.res, AttVal, bytes)
  /\ heapOverflow' = (heapOverflow \/ m_attr_len + 1 > Len(cp.res.mem))
  /\ cp' = NoCopy
  /\ last' = [NoOp EXCEPT !.op = "deepCopy"]
  /\ UNCHANGED <<m_attr_value, m_attr_len, m_attr_max_len, m_capacity, att_mtu,
                 mtuExchanged, rd, wr, srvVars, cliVars>>

InitConc ==
  /\ LET v == Construct(InitLen, BLE_ATT_ATTR_MAX_LEN, TRUE)
     IN /\ m_attr_value = v.m_attr_value
        /\ m_attr_len = v.m_attr_len
        /\ m_attr_max_len = v.m_attr_max_len
        /\ m_capacity = v.m_capacity
  /\ heapOverflow = FALSE
  /\ att_mtu = DefaultMtu
  /\ mtuExchanged = FALSE
  /\ rd = NoRead
  /\ InitTsk
  /\ InitCli
  /\ last = NoOp
  /\ InitSrv(0, 0, 0, 0)

NextConc ==
  \/ SetValueBegin
  \/ AppendPrepare
  \/ AppendCommit
  \/ ReadSnapshot
  \/ CopyRealloc
  \/ CopyCommit

\* one attribute: a task in setValue, a reader, and a task copying the value
SpecConc == InitConc /\ [][NextConc]_vars

\* a temporary is constructed from a value
ValueConstruct ==
  /\ \E value \in TaskInputs, max_len \in {1, BLE_ATT_ATTR_MAX_LEN + 1},
        callocOk \in BOOLEAN :
       dst' = ConstructValue(value, max_len, callocOk)
  /\ last' = [NoOp EXCEPT !.op = "construct"]
  /\ UNCHANGED <<m_attr_value, m_attr_len, m_attr_max_len, m_capacity, heapOverflow,
                 att_mtu, mtuExchanged, rd, wr, cp, srvVars, cliVars>>

\* dst = attribute value (copy assignment)
CopyAssign ==
  /\ \E reallocOk \in BOOLEAN, bytes \in ReadBuf(m_attr_value, m_attr_len + 1) :
       LET r == deepCopy(dst, AttVal, reallocOk, bytes)
       IN /\ dst' = r.v
          /\ heapOverflow' = (heapOverflow \/ r.over)
          /\ last' = [NoOp EXCEPT !.op = "copy", !.log = r.log]
  /\ UNCHANGED <<m_attr_value, m_attr_len, m_attr_max_len, m_capacity, att_mtu,
                 mtuExchanged, rd, wr, cp, srvVars, cliVars>>

\* attribute value = std::move(dst) (move assignment)
AppMoveAssign ==
  /\ LET r == MoveAssign(dst)
     IN /\ SetAtt(r.v)
        /\ dst' = r.source
  /\ last' = [NoOp EXCEPT !.op = "move"]
  /\ UNCHANGED <<heapOverflow, att_mtu, mtuExchanged, rd, wr, cp, srvVars, cliVars>>

\* setValue on the attribute value, of a short value
ValSetValue ==
  /\ \E value \in TaskInputs, reallocOk \in BOOLEAN :
       LET r == setValue(AttVal, value, reallocOk, FALSE)
       IN /\ SetAtt(r.v)
          /\ heapOverflow' = (heapOverflow \/ r.over)
  /\ last' = [NoOp EXCEPT !.op = "setValue"]
  /\ UNCHANGED <<att_mtu, mtuExchanged, rd, srvVars, tskVars, cliVars>>

\* append to the attribute value, of a short value
ValAppend ==
  /\ \E value \in TaskInputs, reallocOk \in BOOLEAN :
       LET r == append(AttVal, value, reallocOk)
       IN /\ SetAtt(r.v)
          /\ heapOverflow' = (heapOverflow \/ r.over)
  /\ last' = [NoOp EXCEPT !.op = "append"]
  /\ UNCHANGED <<att_mtu, mtuExchanged, rd, srvVars, tskVars, cliVars>>

NextVal ==
  \/ ValueConstruct
  \/ ValSetValue
  \/ ValAppend
  \/ CopyAssign
  \/ AppMoveAssign

\* two values: construction, setValue, append, copy and move
SpecVal == InitConc /\ [][NextVal]_vars

(***************************************************************************)
(* Properties of the attribute value and of the access callbacks           *)
(***************************************************************************)
\* the last operation was an application call that the maximum length rejects
SetValueTooLong == last.op = "setValue" /\ Len(last.arg) > m_attr_max_len

\* C1 as stated: a setValue or an append whose resulting length would exceed
\* the maximum reports failure (setValue returns false, append logs the
\* error) and leaves the stored length unchanged.
C1_AsStated ==
  [][/\ (last'.op = "setValue" /\ Len(last'.arg) > m_attr_max_len)
          => (last'.ret = FALSE /\ m_attr_len' = m_attr_len)
     /\ (last'.op = "append" /\ m_attr_len + Len(last'.arg) > m_attr_max_len)
          => (last'.log = "val > max" /\ m_attr_len' = m_attr_len)]_vars

\* C1, amended: an append whose resulting length would exceed the maximum
\* logs the error and leaves length, buffer and capacity unchanged; a
\* setValue longer than the maximum returns false, logs the error, keeps the
\* buffer and leaves the stored length 0.
C1_Rejected ==
  [][/\ (last'.op = "setValue" /\ Len(last'.arg) > m_attr_max_len)
          => /\ last'.ret = FALSE
             /\ last'.log = "val > max"
             /\ m_attr_len' = 0
             /\ UNCHANGED <<m_attr_value, m_attr_max_len, m_capacity>>
     /\ (last'.op = "append" /\ m_attr_len + Len(last'.arg) > m_attr_max_len)
          => /\ last'.log = "val > max"
             /\ UNCHANGED <<m_attr_value, m_attr_len, m_attr_max_len, m_capacity>>]_vars

\* a setValue longer than the maximum was refused on an attribute that held a
\* value before (its first byte is still in the buffer)
C1_Witness ==
  /\ SetValueTooLong
  /\ last.ret = FALSE
  /\ m_attr_len = 0
  /\ m_attr_value.ptr = "heap"
  /\ m_attr_value.mem[1] = 1

\* C5: a long read delivered in several fragments calls onRead exactly once,
\* on the first fragment.
C5_OnReadOnce ==
  rd.frags >= 2 => (rd.onReadAt \cap (1 .. rd.frags)) = {1}

\* C6: a write in two chained chunks whose combined length is within the
\* maximum stores the concatenation of the chunks, in order, and calls
\* onWrite once, after the second chunk.
C6_ChainedWrite ==
  [][(last'.op = "write" /\ Len(last'.om) = 2 /\ Len(last'.arg) <= m_attr_max_len)
       => /\ last'.rc = 0
          /\ last'.onWrite = 1
          /\ Data(AttVal') = last'.om[1] \o last'.om[2]]_vars

\* C7: a write whose chunks together are longer than the maximum returns the
\* invalid-attribute-value-length error, leaves the value unchanged and does
\* not call onWrite.
C7_TooLongWrite ==
  [][(last'.op = "write" /\ Len(last'.arg) > m_attr_max_len)
       => /\ last'.rc = BLE_ATT_ERR_INVALID_ATTR_VALUE_LEN
          /\ last'.onWrite = 0
          /\ UNCHANGED <<m_attr_value, m_attr_len, m_attr_max_len, m_capacity>>]_vars

\* a two-chunk write was refused at its second chunk on an attribute that
\* holds a value
C7_Witness ==
  /\ last.op = "write"
  /\ Len(last.om) = 2
  /\ Len(last.om[1]) <= m_attr_max_len
  /\ Len(last.arg) > m_attr_max_len
  /\ last.rc = BLE_ATT_ERR_INVALID_ATTR_VALUE_LEN
  /\ last.onWrite = 0
  /\ m_attr_len > 0

(***************************************************************************)
(* The server: the application task's calls                                *)
(***************************************************************************)
\* the record of the server operation that ran last: the object it was
\* called on, its delete argument, its result, the calls it made (to the
\* stack, and the onConnect callback), the
\* objects it freed, the notify-tx events delivered during it and the
\* onStatus calls they led to; for a subscribe event, the event and (in arg)
\* the onSubscribe calls it led to
NoSrvOp == [op |-> "init", obj |-> 0, del |-> FALSE, arg |-> <<>>, ret |-> TRUE,
            calls |-> <<>>, freed |-> {}, events |-> <<>>, onStatus |-> <<>>,
            ub |-> FALSE]

\* the characteristics a delete of the services S frees with them, and the
\* descriptors a delete of the characteristics C frees with them
ChrsOf(S) == {c \in ChrIds : \E s \in S : Contains(services[s].m_vChars, c)}
DscsOf(C) == {d \in DscIds : \E c \in C : Contains(chars[c].m_vDescriptors, d)}

\* the objects after delete: the memory of a freed service keeps the
\* compiled array pointer the stack may still hold
FreeSvcs(svF, S) ==
  [s \in SvcIds |-> IF s \in S THEN [NoSvc EXCEPT !.st = "freed", !.def = svF[s].def]
                    ELSE svF[s]]
FreeChrs(C) == [c \in ChrIds |-> IF c \in C THEN [NoChr EXCEPT !.st = "freed"] ELSE chars[c]]
FreeDscs(D) == [d \in DscIds |-> IF d \in D THEN [NoDsc EXCEPT !.st = "freed"] ELSE descs[d]]

FreedTags(S, C, D) ==
  {<<"svc", s>> : s \in S} \cup {<<"chr", c>> : c \in C} \cup {<<"dsc", d>> : d \in D}

\* BLEServer::createService(uuid)
CreateService ==
  \E s \in Fresh(services, SvcIds) :
    /\ services' = [services EXCEPT ![s] = [NoSvc EXCEPT !.st = "live"]]
    /\ m_svcVec' = Append(m_svcVec, s)
    /\ m_svcChanged' = serviceChanged(m_gattsStarted, m_svcChanged)
    /\ last' = [NoSrvOp EXCEPT !.op = "createService", !.obj = s]
    /\ UNCHANGED <<valVars, m_gattsStarted, m_connectedPeers, chars, descs, conns,
                   svcDefs, attTab, upd, indq>>

\* BLEServer::addService(service): of a service the application constructed
\* itself, or of one that was removed
AddService ==
  \E s \in Fresh(services, SvcIds)
           \cup {x \in SvcIds : services[x].st = "live" /\ services[x].removed > 0} :
    LET sv == IF services[s].st = "none" THEN [NoSvc EXCEPT !.st = "live"]
              ELSE services[s]
    IN /\ IF sv.removed = 0
          THEN /\ services' = [services EXCEPT ![s] = sv]
               /\ m_svcVec' = Append(m_svcVec, s)
               /\ UNCHANGED m_svcChanged
          ELSE /\ services' = [services EXCEPT ![s].removed = 0]
               /\ m_svcChanged' = serviceChanged(m_gattsStarted, m_svcChanged)
               /\ UNCHANGED m_svcVec
       /\ last' = [NoSrvOp EXCEPT !.op = "addService", !.obj = s]
       /\ UNCHANGED <<valVars, m_gattsStarted, m_connectedPeers, chars, descs, conns,
                      svcDefs, attTab, upd, indq>>

\* ble_gatts_svc_set_visibility(handle, 0) succeeds on a registered service
SetVisibilityOk(h) == h \in 1 .. Len(attTab) /\ attTab[h].kind = "svc"

\* BLEServer::removeService(service, deleteSvc)
RemoveService ==
  \E s \in SvcIds, deleteSvc \in BOOLEAN :
    /\ services[s].st = "live"
    /\ Contains(m_svcVec, s)
    /\ IF services[s].removed > 0
       THEN IF deleteSvc
            THEN LET C == ChrsOf({s})
                     D == DscsOf(C)
                 IN /\ services' = FreeSvcs(services, {s})
                    /\ chars' = FreeChrs(C)
                    /\ descs' = FreeDscs(D)
                    /\ m_svcVec' = Erase(m_svcVec, s)
                    /\ last' = [NoSrvOp EXCEPT !.op = "removeService", !.obj = s,
                                               !.del = deleteSvc,
                                               !.freed = FreedTags({s}, C, D)]
                    /\ UNCHANGED m_svcChanged
            ELSE /\ last' = [NoSrvOp EXCEPT !.op = "removeService", !.obj = s,
                                            !.del = deleteSvc]
                 /\ UNCHANGED <<services, chars, descs, m_svcVec, m_svcChanged>>
       ELSE IF ~SetVisibilityOk(services[s].m_handle)
            THEN /\ last' = [NoSrvOp EXCEPT !.op = "removeService", !.obj = s,
                                            !.del = deleteSvc, !.ret = FALSE,
                                            !.calls = <<"ble_gatts_svc_set_visibility">>]
                 /\ UNCHANGED <<services, chars, descs, m_svcVec, m_svcChanged>>
            ELSE /\ services' = [services EXCEPT ![s].removed =
                                   IF deleteSvc THEN NIMBLE_ATT_REMOVE_DELETE
                                   ELSE NIMBLE_ATT_REMOVE_HIDE]
                 /\ m_svcChanged' = serviceChanged(m_gattsStarted, m_svcChanged)
                 /\ last' = [NoSrvOp EXCEPT !.op = "removeService", !.obj = s,
                                            !.del = deleteSvc,
                                            !.calls = <<"ble_gatts_svc_set_visibility">>]
                 /\ UNCHANGED <<chars, descs, m_svcVec>>
    /\ UNCHANGED <<valVars, m_gattsStarted, m_connectedPeers, conns, svcDefs, attTab,
                   upd, indq>>

\* BLEService::createCharacteristic(uuid): construct, then addCharacteristic
createCharacteristic(uuid) ==
  \E s \in SvcIds, c \in Fresh(chars, ChrIds) :
    /\ services[s].st = "live"
    /\ chars' = [chars EXCEPT ![c] = [NoChr EXCEPT !.st = "live", !.svc = s,
                                                  !.uuid = uuid]]
    /\ services' = [services EXCEPT ![s].m_vChars = Append(@, c)]
    /\ m_svcChanged' = serviceChanged(m_gattsStarted, m_svcChanged)
    /\ last' = [NoSrvOp EXCEPT !.op = "createCharacteristic", !.obj = c]
    /\ UNCHANGED <<valVars, m_gattsStarted, m_svcVec, m_connectedPeers, descs, conns,
                   svcDefs, attTab, upd, indq>>

\* the application creates a characteristic; every characteristic has the
\* same UUID
CreateCharacteristic == \E uuid \in {1} : createCharacteristic(uuid)

\* the application creates a characteristic with one of several UUIDs
CreateCharacteristicUuid == \E uuid \in Uuids : createCharacteristic(uuid)

\* BLEService::getCharacteristic(uuid, idx): the idx-th characteristic of
\* the vector with that UUID, or 0 (nullptr)
getCharacteristic(sv, uuid, idx) ==
  LET RECURSIVE Find(_, _)
      Find(i, position) ==
        IF i > Len(sv.m_vChars) THEN 0
        ELSE IF chars[sv.m_vChars[i]].uuid = uuid
             THEN IF position = idx THEN sv.m_vChars[i]
                  ELSE Find(i + 1, position + 1)
             ELSE Find(i + 1, position)
  IN Find(1, 0)

\* BLEService::getCharacteristicByHandle(handle): the first characteristic of
\* the vector whose handle is the given one, or 0 (nullptr); chrs holds the
\* characteristic objects
getCharacteristicByHandle(sv, chrs, handle) ==
  LET m == SelectSeq(sv.m_vChars, LAMBDA c : chrs[c].m_handle = handle)
  IN IF Len(m) = 0 THEN 0 ELSE m[1]

\* a service counts as started once the stack has given it a handle
isStarted_Registered(sv) == sv.m_handle > 0

\* BLEService::isStarted()
isStarted(sv) == sv.type > 0

\* BLEService::addCharacteristic(pChar) of a removed characteristic of the
\* service: the flag is cleared and the function returns at the "already in
\* the service" check
AddCharacteristic ==
  \E c \in ChrIds :
    /\ chars[c].st = "live"
    /\ chars[c].removed > 0
    /\ chars' = [chars EXCEPT ![c].removed = 0]
    /\ last' = [NoSrvOp EXCEPT !.op = "addCharacteristic", !.obj = c]
    /\ UNCHANGED <<valVars, m_gattsStarted, m_svcChanged, m_svcVec, m_connectedPeers,
                   services, descs, conns, svcDefs, attTab, upd, indq>>

\* BLEService::removeCharacteristic(pChar, deleteChr)
RemoveCharacteristic ==
  \E c \in ChrIds, deleteChr \in BOOLEAN :
    /\ chars[c].st = "live"
    /\ IF chars[c].removed > 0
       THEN IF deleteChr
            THEN LET D == DscsOf({c})
                 IN /\ chars' = FreeChrs({c})
                    /\ descs' = FreeDscs(D)
                    /\ services' = [services EXCEPT ![chars[c].svc].m_vChars = Erase(@, c)]
                    /\ last' = [NoSrvOp EXCEPT !.op = "removeCharacteristic", !.obj = c,
                                               !.del = deleteChr,
                                               !.freed = FreedTags({}, {c}, D)]
                    /\ UNCHANGED m_svcChanged
            ELSE /\ last' = [NoSrvOp EXCEPT !.op = "removeCharacteristic", !.obj = c,
                                            !.del = deleteChr]
                 /\ UNCHANGED <<services, chars, descs, m_svcChanged>>
       ELSE /\ chars' = [chars EXCEPT ![c].removed =
                           IF deleteChr THEN NIMBLE_ATT_REMOVE_DELETE
                           ELSE NIMBLE_ATT_REMOVE_HIDE]
            /\ m_svcChanged' = serviceChanged(m_gattsStarted, m_svcChanged)
            /\ last' = [NoSrvOp EXCEPT !.op = "removeCharacteristic", !.obj = c,
                                       !.del = deleteChr]
            /\ UNCHANGED <<services, descs>>
    /\ UNCHANGED <<valVars, m_gattsStarted, m_svcVec, m_connectedPeers, conns, svcDefs,
                   attTab, upd, indq>>

\* BLECharacteristic::createDescriptor(uuid): construct, then addDescriptor
CreateDescriptor ==
  \E c \in ChrIds, d \in Fresh(descs, DscIds) :
    /\ chars[c].st = "live"
    /\ descs' = [descs EXCEPT ![d] = [NoDsc EXCEPT !.st = "live", !.chr = c]]
    /\ chars' = [chars EXCEPT ![c].m_vDescriptors = Append(@, d)]
    /\ m_svcChanged' = serviceChanged(m_gattsStarted, m_svcChanged)
    /\ last' = [NoSrvOp EXCEPT !.op = "createDescriptor", !.obj = d]
    /\ UNCHANGED <<valVars, m_gattsStarted, m_svcVec, m_connectedPeers, services, conns,
                   svcDefs, attTab, upd, indq>>

\* BLECharacteristic::addDescriptor(pDescriptor) of a removed descriptor of
\* the characteristic
AddDescriptor ==
  \E d \in DscIds :
    /\ descs[d].st = "live"
    /\ descs[d].removed > 0
    /\ descs' = [descs EXCEPT ![d].removed = 0]
    /\ last' = [NoSrvOp EXCEPT !.op = "addDescriptor", !.obj = d]
    /\ UNCHANGED <<valVars, m_gattsStarted, m_svcChanged, m_svcVec, m_connectedPeers,
                   services, chars, conns, svcDefs, attTab, upd, indq>>

\* BLECharacteristic::removeDescriptor(pDescriptor, deleteDsc)
RemoveDescriptor ==
  \E d \in DscIds, deleteDsc \in BOOLEAN :
    /\ descs[d].st = "live"
    /\ IF descs[d].removed > 0
       THEN IF deleteDsc
            THEN /\ descs' = FreeDscs({d})
                 /\ chars' = [chars EXCEPT ![descs[d].chr].m_vDescriptors = Erase(@, d)]
                 /\ last' = [NoSrvOp EXCEPT !.op = "removeDescriptor", !.obj = d,
                                            !.del = deleteDsc,
                                            !.freed = FreedTags({}, {}, {d})]
                 /\ UNCHANGED m_svcChanged
            ELSE /\ last' = [NoSrvOp EXCEPT !.op = "removeDescriptor", !.obj = d,
                                            !.del = deleteDsc]
                 /\ UNCHANGED <<chars, descs, m_svcChanged>>
       ELSE /\ descs' = [descs EXCEPT ![d].removed =
                           IF deleteDsc THEN NIMBLE_ATT_REMOVE_DELETE
                           ELSE NIMBLE_ATT_REMOVE_HIDE]
            /\ m_svcChanged' = serviceChanged(m_gattsStarted, m_svcChanged)
            /\ last' = [NoSrvOp EXCEPT !.op = "removeDescriptor", !.obj = d,
                                       !.del = deleteDsc]
            /\ UNCHANGED chars
    /\ UNCHANGED <<valVars, m_gattsStarted, m_svcVec, m_connectedPeers, services, conns,
                   svcDefs, attTab, upd, indq>>

\* the application calls BLEService::start()
StartService ==
  \E s \in SvcIds, out \in StartOutcomes :
    /\ services[s].st = "live"
    /\ LET r == ServiceStart(s, services[s], m_svcChanged, svcDefs, out)
       IN /\ services' = [services EXCEPT ![s] = r.sv]
          /\ svcDefs' = r.defs
          /\ last' = [NoSrvOp EXCEPT !.op = "serviceStart", !.obj = s, !.ret = r.ret,
                                     !.calls = r.calls, !.ub = r.ub]
    /\ UNCHANGED <<valVars, m_gattsStarted, m_svcChanged, m_svcVec, m_connectedPeers,
                   chars, descs, conns, attTab, upd, indq>>

\* ble_gatts_start() walks a definition whose memory was freed
StaleDefs == \E i \in 1 .. Len(svcDefs) :
               services[svcDefs[i]].st = "freed" \/ services[svcDefs[i]].chrp = "dangling"

\* BLEServer::start(); ok: ble_gatts_start() returns 0
StartServer ==
  \E ok \in BOOLEAN :
    LET tab == Register(svcDefs)
    IN IF m_gattsStarted
       THEN /\ last' = [NoSrvOp EXCEPT !.op = "serverStart"]
            /\ UNCHANGED <<valVars, srvVars>>
       ELSE IF ~ok
       THEN /\ last' = [NoSrvOp EXCEPT !.op = "serverStart", !.ret = FALSE,
                                       !.calls = <<"ble_gatts_start">>, !.ub = StaleDefs]
            /\ UNCHANGED <<valVars, srvVars>>
       ELSE /\ attTab' = tab
            \* the stack stores each characteristic's handle through val_handle
            /\ chars' = [c \in ChrIds |->
                 IF chars[c].st = "live" /\ Handles(tab, "chr", c) # {}
                 THEN [chars[c] EXCEPT !.m_handle = MaxOf(Handles(tab, "chr", c))]
                 ELSE chars[c]]
            \* ble_gatts_find_svc for the services that are not removed
            /\ services' = [s \in SvcIds |->
                 IF Contains(m_svcVec, s) /\ services[s].removed = 0
                    /\ Handles(tab, "svc", s) # {}
                 THEN [services[s] EXCEPT !.m_handle = MinOf(Handles(tab, "svc", s))]
                 ELSE services[s]]
            \* ble_gatts_find_dsc for the descriptors of the services not skipped
            /\ descs' = [d \in DscIds |->
                 LET c == descs[d].chr
                     s == IF c = 0 THEN 0 ELSE chars[c].svc
                 IN IF /\ descs[d].st = "live"
                       /\ s # 0
                       /\ Contains(m_svcVec, s)
                       /\ Contains(services[s].m_vChars, c)
                       /\ Contains(chars[c].m_vDescriptors, d)
                       /\ (services[s].removed > 0 \/ Handles(tab, "svc", s) # {})
                       /\ Handles(tab, "dsc", d) # {}
                    THEN [descs[d] EXCEPT !.m_handle = MinOf(Handles(tab, "dsc", d))]
                    ELSE descs[d]]
            /\ m_svcChanged' = FALSE
            /\ m_gattsStarted' = TRUE
            /\ last' = [NoSrvOp EXCEPT !.op = "serverStart", !.ub = StaleDefs,
                          !.calls = IF m_svcChanged
                                    THEN <<"ble_gatts_start", "ble_svc_gatt_changed">>
                                    ELSE <<"ble_gatts_start">>]
            /\ UNCHANGED <<valVars, m_svcVec, m_connectedPeers, conns, svcDefs, upd, indq>>

(***************************************************************************)
(* Notifications and indications                                           *)
(***************************************************************************)
\* the characteristics in the order handleGapEvent walks them
CharOrder == Flat([i \in 1 .. Len(m_svcVec) |-> services[m_svcVec[i]].m_vChars])

\* BLE_GAP_EVENT_NOTIFY_TX: the onStatus calls the event e leads to
HandleNotifyTx(e) ==
  LET m == SelectSeq(CharOrder, LAMBDA c : chars[c].m_handle = e.attr_handle)
  IN IF Len(m) = 0 THEN <<>>
     ELSE IF e.indication /\ e.status = 0 THEN <<>>
     ELSE <<[chr |-> m[Len(m)], status |-> e.status]>>

\* the stack can read the value of the attribute h: h is the value handle
\* of a registered characteristic
StackReads(h) == h \in 1 .. Len(attTab) /\ attTab[h].kind = "chr"

\* how a send of characteristic c may fail: not at all, or at the at-th
\* peer, when the mbuf is allocated or in the stack's send; a send without a
\* buffer fails when the stack cannot read the value
SendFails(c, hasValue, connHandle) ==
  IF ~hasValue /\ connHandle # BLE_HS_CONN_HANDLE_NONE /\ ~StackReads(chars[c].m_handle)
  THEN {[at |-> 1, kind |-> "send"]}
  ELSE {[at |-> 0, kind |-> "none"]}
         \cup {[at |-> i, kind |-> k] : i \in Slots, k \in {"mbuf", "send"}}

\* BLECharacteristic::sendValue with every send to the peers framed by the
\* wrapper, also when no value is given
sendValue_Framed(c, hasValue, isNotification, connHandle, fail) ==
  LET peers   == getPeerDevices(m_connectedPeers)
      targets == SelectSeq(peers, LAMBDA ch : connHandle = BLE_HS_CONN_HANDLE_NONE
                                              \/ ch = connHandle)
      stop    == IF fail.at \in 1 .. Len(targets) THEN fail.at ELSE 0
      n       == IF stop = 0 THEN Len(targets)
                 ELSE IF fail.kind = "mbuf" THEN stop - 1 ELSE stop
  IN [events  |-> [i \in 1 .. n |->
                     [conn |-> targets[i], attr_handle |-> chars[c].m_handle,
                      indication |-> ~isNotification,
                      status |-> IF i = stop THEN BLE_HS_ENOTCONN ELSE 0, src |-> c]],
      calls   |-> [i \in 1 .. n |-> IF isNotification THEN "ble_gattc_notify_custom"
                                    ELSE "ble_gattc_indicate_custom"],
      updated |-> FALSE,
      ret     |-> stop = 0]

\* BLECharacteristic::sendValue(value, length, isNotification, connHandle):
\* the framed sends handed to the stack (each raises its notify-tx event
\* before it returns), or the report that the value was updated
sendValue(c, hasValue, isNotification, connHandle, fail) ==
  LET peers   == getPeerDevices(m_connectedPeers)
      framed  == hasValue \/ connHandle # BLE_HS_CONN_HANDLE_NONE
      targets == IF hasValue
                 THEN SelectSeq(peers, LAMBDA ch : connHandle = BLE_HS_CONN_HANDLE_NONE
                                                   \/ ch = connHandle)
                 ELSE IF framed THEN <<connHandle>> ELSE <<>>
      stop    == IF fail.at \in 1 .. Len(targets) THEN fail.at ELSE 0
      n       == IF stop = 0 THEN Len(targets)
                 ELSE IF fail.kind = "mbuf" /\ hasValue THEN stop - 1 ELSE stop
  IN [events  |-> [i \in 1 .. n |->
                     [conn |-> targets[i], attr_handle |-> chars[c].m_handle,
                      indication |-> ~isNotification,
                      status |-> IF i = stop THEN BLE_HS_ENOTCONN ELSE 0, src |-> c]],
      calls   |-> IF framed
                  THEN [i \in 1 .. n |-> IF isNotification THEN "ble_gattc_notify_custom"
                                         ELSE "ble_gattc_indicate_custom"]
                  ELSE <<"ble_gatts_chr_updated">>,
      updated |-> ~framed,
      ret     |-> stop = 0]

\* the onStatus calls of a sequence of events
Dispatch(events) == Flat([i \in 1 .. Len(events) |-> HandleNotifyTx(events[i])])

\* the application calls notify() or indicate() on a characteristic
Notify ==
  \E c \in ChrIds, hasValue \in BOOLEAN, isNotification \in BOOLEAN,
     connHandle \in conns \cup {BLE_HS_CONN_HANDLE_NONE} :
    \E fail \in SendFails(c, hasValue, connHandle) :
    /\ chars[c].st = "live"
    /\ LET r == sendValue(c, hasValue, isNotification, connHandle, fail)
           h == chars[c].m_handle
       IN /\ indq' = indq \cup {[conn |-> r.events[i].conn, attr_handle |-> h, src |-> c] :
                                  i \in {j \in 1 .. Len(r.events) :
                                           r.events[j].indication /\ r.events[j].status = 0}}
          /\ upd' = IF /\ r.updated
                       /\ conns # {}
                       /\ StackReads(h)
                    THEN upd \cup {[attr_handle |-> h, src |-> c]}
                    ELSE upd
          /\ last' = [NoSrvOp EXCEPT !.op = "notify", !.obj = c, !.ret = r.ret,
                        !.arg = [hasValue |-> hasValue, connHandle |-> connHandle,
                                 isNotification |-> isNotification],
                        !.calls = r.calls, !.events = r.events,
                        !.onStatus = Dispatch(r.events)]
    /\ UNCHANGED <<valVars, m_gattsStarted, m_svcChanged, m_svcVec, m_connectedPeers,
                   services, chars, descs, conns, svcDefs, attTab>>

\* the stack sends an updated characteristic to a subscribed peer, as a
\* notification or as an indication, and raises the notify-tx event
TxUpdated ==
  \E u \in upd, conn \in conns, indication \in BOOLEAN, ok \in BOOLEAN :
    LET e == [conn |-> conn, attr_handle |-> u.attr_handle, indication |-> indication,
              status |-> IF ok THEN 0 ELSE BLE_HS_ENOTCONN, src |-> u.src]
    IN /\ upd' = upd \ {u}
       /\ indq' = IF indication /\ ok
                  THEN indq \cup {[conn |-> conn, attr_handle |-> u.attr_handle,
                                   src |-> u.src]}
                  ELSE indq
       /\ last' = [NoSrvOp EXCEPT !.op = "notify_tx", !.obj = conn, !.events = <<e>>,
                                  !.onStatus = HandleNotifyTx(e)]
       /\ UNCHANGED <<valVars, m_gattsStarted, m_svcChanged, m_svcVec, m_connectedPeers,
                      services, chars, descs, conns, svcDefs, attTab>>

\* an indication ends: the peer acknowledges it, or it times out
IndicateDone ==
  \E p \in indq, status \in {BLE_HS_EDONE, BLE_HS_ETIMEOUT} :
    LET e == [conn |-> p.conn, attr_handle |-> p.attr_handle, indication |-> TRUE,
              status |-> status, src |-> p.src]
    IN /\ indq' = indq \ {p}
       /\ last' = [NoSrvOp EXCEPT !.op = "notify_tx", !.obj = p.conn, !.events = <<e>>,
                                  !.onStatus = HandleNotifyTx(e)]
       /\ UNCHANGED <<valVars, m_gattsStarted, m_svcChanged, m_svcVec, m_connectedPeers,
                      services, chars, descs, conns, svcDefs, attTab, upd>>

(***************************************************************************)
(* Connections and the reset-and-rebuild                                   *)
(***************************************************************************)
\* the loop of resetGATT over the services todo: delete, skip or start()
RECURSIVE ResetLoop(_, _, _)
ResetLoop(todo, st, outs) ==
  IF Len(todo) = 0 THEN st
  ELSE LET s  == Head(todo)
           sv == st.services[s]
       IN IF sv.removed = NIMBLE_ATT_REMOVE_DELETE
          THEN ResetLoop(Tail(todo),
                         [st EXCEPT !.vec = Erase(@, s), !.freedSvcs = @ \cup {s}], outs)
          ELSE IF sv.removed > 0
          THEN ResetLoop(Tail(todo), st, outs)
          ELSE LET r == ServiceStart(s, sv, m_svcChanged, st.defs, outs[s])
               IN ResetLoop(Tail(todo),
                            [st EXCEPT !.services[s] = r.sv, !.defs = r.defs,
                                       !.calls = @ \o r.calls, !.ub = @ \/ r.ub], outs)

\* resetGATT() returning at once whatever the table holds
resetGATT_Refused(peers, outs) ==
  [ran |-> FALSE, services |-> services, vec |-> m_svcVec, defs |-> svcDefs,
   calls |-> <<>>, freedSvcs |-> {}, ub |-> FALSE]

\* BLEServer::resetGATT() with the peer table peers
resetGATT(peers, outs) ==
  IF getConnectedCount(peers) > 0
  THEN [ran |-> FALSE, services |-> services, vec |-> m_svcVec, defs |-> svcDefs,
        calls |-> <<>>, freedSvcs |-> {}, ub |-> FALSE]
  ELSE ResetLoop(m_svcVec,
                 [ran |-> TRUE, services |-> services, vec |-> m_svcVec, defs |-> <<>>,
                  calls |-> <<"stopAdvertising", "ble_gatts_reset", "ble_svc_gap_init",
                              "ble_svc_gatt_init">>,
                  freedSvcs |-> {}, ub |-> FALSE],
                 outs)

\* the handle the stack gives a new connection: the first one free
NewConn == IF ConnHandles \subseteq conns THEN {} ELSE {MinOf(ConnHandles \ conns)}

\* BLE_GAP_EVENT_CONNECT for the connection h; found: ble_gap_conn_find
\* still knows the connection
Connect(h, status, found) ==
  IF status # 0
  THEN /\ last' = [NoSrvOp EXCEPT !.op = "connect", !.obj = h, !.ret = FALSE,
                                  !.calls = <<"startAdvertising">>]
       /\ UNCHANGED <<valVars, srvVars>>
  ELSE IF ~found
  THEN /\ last' = [NoSrvOp EXCEPT !.op = "connect", !.obj = h, !.ret = FALSE]
       /\ UNCHANGED <<valVars, srvVars>>
  ELSE LET i == FirstSlot(m_connectedPeers, BLE_HS_CONN_HANDLE_NONE)
       IN /\ conns' = conns \cup {h}
          /\ m_connectedPeers' = IF i = 0 THEN m_connectedPeers
                                 ELSE [m_connectedPeers EXCEPT ![i] = h]
          /\ last' = [NoSrvOp EXCEPT !.op = "connect", !.obj = h,
                                     !.calls = <<"onConnect">>]
          /\ UNCHANGED <<valVars, m_gattsStarted, m_svcChanged, m_svcVec, services,
                         chars, descs, svcDefs, attTab, upd, indq>>

\* a peer connects to a stack whose connection pool has the table's size
GapConnect ==
  \E h \in NewConn, status \in {0, BLE_HS_ETIMEOUT}, found \in BOOLEAN :
    Connect(h, status, found)

\* a stack that has one connection more than the table has slots reports
\* that connection while every slot is taken
GapConnectFull ==
  LET h == Len(m_connectedPeers) + 1
  IN /\ \A i \in Slots : m_connectedPeers[i] # BLE_HS_CONN_HANDLE_NONE
     /\ h \notin conns
     /\ Connect(h, 0, TRUE)

\* BLE_GAP_EVENT_DISCONNECT of the connection h: the slot is cleared and, if
\* the tree changed, resetGATT() is called
GapDisconnect ==
  \E h \in conns, outs \in [SvcIds -> {"ok", "count", "add"}] :
    LET i      == FirstSlot(m_connectedPeers, h)
        peers1 == IF i = 0 THEN m_connectedPeers
                  ELSE [m_connectedPeers EXCEPT ![i] = BLE_HS_CONN_HANDLE_NONE]
        r      == resetGATT(peers1, outs)
        reset  == m_svcChanged /\ r.ran
        S      == r.freedSvcs
        C      == ChrsOf(S)
        D      == DscsOf(C)
    IN /\ conns' = conns \ {h}
       /\ m_connectedPeers' = peers1
       /\ indq' = IF reset THEN {} ELSE {p \in indq : p.conn # h}
       /\ upd' = IF conns \ {h} = {} THEN {} ELSE upd
       /\ IF reset
          THEN /\ services' = FreeSvcs(r.services, S)
               /\ chars' = FreeChrs(C)
               /\ descs' = FreeDscs(D)
               /\ m_svcVec' = r.vec
               /\ svcDefs' = r.defs
               /\ attTab' = <<>>
               /\ m_gattsStarted' = FALSE
               /\ last' = [NoSrvOp EXCEPT !.op = "disconnect", !.obj = h,
                                          !.calls = r.calls, !.ub = r.ub,
                                          !.freed = FreedTags(S, C, D)]
          ELSE /\ last' = [NoSrvOp EXCEPT !.op = "disconnect", !.obj = h]
               /\ UNCHANGED <<services, chars, descs, m_svcVec, svcDefs, attTab,
                              m_gattsStarted>>
       /\ UNCHANGED <<valVars, m_svcChanged>>

\* the attribute value plays no part in the specifications of the server
InitVal ==
  /\ LET v == Construct(InitLen, BLE_ATT_ATTR_MAX_LEN, TRUE)
     IN /\ m_attr_value = v.m_attr_value
        /\ m_attr_len = v.m_attr_len
        /\ m_attr_max_len = v.m_attr_max_len
        /\ m_capacity = v.m_capacity
  /\ heapOverflow = FALSE
  /\ att_mtu = DefaultMtu
  /\ mtuExchanged = FALSE
  /\ rd = NoRead
  /\ InitTsk
  /\ InitCli
  /\ last = NoSrvOp

Init == InitVal /\ InitSrv(MaxSvcs, SrvChrs, 0, CONFIG_BT_NIMBLE_MAX_CONNECTIONS)

Next ==
  \/ CreateService
  \/ AddService
  \/ RemoveService
  \/ CreateCharacteristic
  \/ AddCharacteristic
  \/ RemoveCharacteristic
  \/ StartService
  \/ StartServer
  \/ GapConnect
  \/ GapDisconnect

\* the server while peers come and go: services, characteristics, the peer
\* table, registration and the reset-and-rebuild
Spec == Init /\ [][Next]_vars

InitLookup == InitVal /\ InitSrv(MaxSvcs, LookupChrs, 0, 0)

NextLookup ==
  \/ CreateService
  \/ CreateCharacteristicUuid
  \/ AddCharacteristic
  \/ RemoveCharacteristic
  \/ StartService
  \/ StartServer

\* the application creates a service and characteristics with UUIDs, starts
\* the service and looks characteristics up
SpecLookup == InitLookup /\ [][NextLookup]_vars

InitTree == InitVal /\ InitSrv(MaxSvcs, TreeChrs, TreeDscs, 0)

NextTree ==
  \/ CreateService
  \/ AddService
  \/ RemoveService
  \/ CreateCharacteristic
  \/ AddCharacteristic
  \/ RemoveCharacteristic
  \/ CreateDescriptor
  \/ AddDescriptor
  \/ RemoveDescriptor
  \/ StartService
  \/ StartServer

\* the application builds the tree and registers it; no peer connects
SpecTree == InitTree /\ [][NextTree]_vars

InitNotify == InitVal /\ InitSrv(MaxSvcs, NotifyChrs, 0, NotifyConns)

NextNotify ==
  \/ CreateService
  \/ CreateCharacteristic
  \/ AddCharacteristic
  \/ RemoveCharacteristic
  \/ StartService
  \/ StartServer
  \/ GapConnect
  \/ GapDisconnect
  \/ Notify
  \/ TxUpdated
  \/ IndicateDone

\* the server while it notifies and indicates
SpecNotify == InitNotify /\ [][NextNotify]_vars

\* the value the subscribe handler passes to onSubscribe
SubValue(cur_notify, cur_indicate) == cur_notify + cur_indicate

\* BLE_GAP_EVENT_SUBSCRIBE: the calls the event e leads to, characteristic
\* by characteristic; found: ble_gap_conn_find knows the connection; sec:
\* the link is not encrypted and the characteristic asks for a secured read
HandleSubscribe(e, found, sec) ==
  LET m == SelectSeq(CharOrder, LAMBDA c : chars[c].m_handle = e.attr_handle)
  IN IF ~found THEN [calls |-> <<>>, onSubscribe |-> <<>>]
     ELSE [calls       |-> Flat([i \in 1 .. Len(m) |->
                                   IF sec THEN <<"startSecurity", "onSubscribe">>
                                   ELSE <<"onSubscribe">>]),
           onSubscribe |-> [i \in 1 .. Len(m) |->
                              [chr |-> m[i],
                               subValue |-> SubValue(e.cur_notify, e.cur_indicate)]]]

\* a connected peer writes the client configuration of a registered
\* characteristic: the stack reports its new subscription state
GapSubscribe ==
  \E h \in {x \in 1 .. Len(attTab) : attTab[x].kind = "chr"}, conn \in conns,
     cur_notify \in 0 .. 1, cur_indicate \in 0 .. 1, found \in BOOLEAN, sec \in BOOLEAN :
    LET e == [attr_handle |-> h, conn_handle |-> conn, cur_notify |-> cur_notify,
              cur_indicate |-> cur_indicate]
        r == HandleSubscribe(e, found, sec)
    IN /\ last' = [NoSrvOp EXCEPT !.op = "subscribe", !.obj = conn, !.events = <<e>>,
                                  !.calls = r.calls, !.arg = r.onSubscribe]
       /\ UNCHANGED <<valVars, srvVars>>

NextSubscribe ==
  \/ CreateService
  \/ CreateCharacteristic
  \/ StartService
  \/ StartServer
  \/ GapConnect
  \/ GapDisconnect
  \/ GapSubscribe

\* the server while a peer subscribes and unsubscribes
SpecSubscribe == InitNotify /\ [][NextSubscribe]_vars

InitHandles == InitVal /\ InitSrv(MaxSvcs, LookupChrs, 0, NotifyConns)

NextHandles ==
  \/ CreateService
  \/ CreateCharacteristic
  \/ RemoveCharacteristic
  \/ StartService
  \/ StartServer
  \/ GapConnect
  \/ GapDisconnect
  \/ GapSubscribe

\* the server with two characteristics and one peer: characteristics are
\* removed, the tree is rebuilt and registered again, and the peer subscribes
SpecHandles == InitHandles /\ [][NextHandles]_vars

InitOrder == InitVal /\ InitSrv(OrderSvcs, 0, 0, NotifyConns)

NextOrder ==
  \/ CreateService
  \/ AddService
  \/ RemoveService
  \/ StartService
  \/ StartServer
  \/ GapConnect
  \/ GapDisconnect

\* the server with two services, started in any order, and one peer
SpecOrder == InitOrder /\ [][NextOrder]_vars

InitConnect == InitVal /\ InitSrv(MaxSvcs, 0, 0, CONFIG_BT_NIMBLE_MAX_CONNECTIONS)

NextConnect ==
  \/ CreateService
  \/ RemoveService
  \/ StartService
  \/ StartServer
  \/ GapConnect
  \/ GapConnectFull
  \/ GapDisconnect

\* the server on a stack that can hold one connection more than the peer
\* table
SpecConnect == InitConnect /\ [][NextConnect]_vars

(***************************************************************************)
(* The client role: writeValue, readValue and their callbacks              *)
(***************************************************************************)
\* what ble_gattc_write_*, ble_gattc_read* and ble_gattc_disc_* return when
\* called: not connected without a link, else 0 or a failure to queue
IssueRc == IF gattc.up THEN {0, BLE_HS_EBUSY} ELSE {BLE_HS_ENOTCONN}

\* the call under way returns rc (its BLETaskData and its local value leave
\* scope: the requests still in flight keep pointers to them)
CallReturns(name, o, rc) ==
  /\ op' = NoCall
  /\ gattc' = [gattc EXCEPT !.pend = {[q EXCEPT !.stale = TRUE] : q \in gattc.pend}]
  /\ last' = [NoCliOp EXCEPT !.op = name, !.ret = (rc = 0), !.rc = rc,
                             !.value = o.value, !.requests = o.requests,
                             !.retries = o.retries, !.secured = o.secured,
                             !.pending = Cardinality(gattc.pend)]

\* the end of the do-while body with rc # 0: while (rc != 0 && retryCount--)
\* goes round again, or the loop is left with the error
WhileRetry(name, o) ==
  IF o.retryCount # 0
  THEN /\ op' = [o EXCEPT !.pc = "issue", !.retryCount = @ - 1, !.released = FALSE]
       /\ last' = [NoCliOp EXCEPT !.op = "retry", !.rc = o.rc]
       /\ UNCHANGED gattc
  ELSE CallReturns(name, [o EXCEPT !.retryCount = @ - 1], o.rc)

\* the insufficient-security cases without the look at retryCount
SecureAndRetry_NoCount(name, o, paired) ==
  IF paired THEN WhileRetry(name, [o EXCEPT !.secured = @ + 1, !.retryCount = 1])
  ELSE CallReturns(name, [o EXCEPT !.secured = @ + 1], o.rc)

\* the insufficient-security cases of the switch: pairing if retryCount
\* allows; paired: what secureConnection() returns
SecureAndRetry(name, o, paired) ==
  IF o.retryCount # 0
  THEN IF paired THEN WhileRetry(name, [o EXCEPT !.secured = @ + 1])
       ELSE CallReturns(name, [o EXCEPT !.secured = @ + 1], o.rc)
  ELSE CallReturns(name, o, o.rc)

\* writeValue(data, length, response) is called
WriteValue ==
  /\ op.pc = "idle"
  /\ \E length \in 1 .. RemoteMtu + 1, response \in BOOLEAN, rc \in IssueRc :
       IF length <= RemoteMtu /\ ~response
       THEN CallReturns("writeValue", [NoCall EXCEPT !.length = length], rc)
       ELSE /\ op' = [NoCall EXCEPT !.kind = "write", !.pc = "issue",
                                    !.retryCount = 1, !.length = length]
            /\ last' = [NoCliOp EXCEPT !.op = "call"]
            /\ UNCHANGED gattc
  /\ UNCHANGED <<cl, srvSide>>

\* writeValue issues a write request, long or flat, and waits
WriteIssue ==
  /\ op.kind = "write" /\ op.pc = "issue"
  /\ op.requests < MaxRequests
  /\ \E rc \in IssueRc :
       IF rc # 0 THEN CallReturns("writeValue", op, rc)
       ELSE /\ op' = [op EXCEPT !.pc = "wait", !.requests = @ + 1]
            /\ gattc' = [gattc EXCEPT !.pend = @ \cup
                           {[proc  |-> IF op.length > RemoteMtu THEN "write_long"
                                       ELSE "write",
                             stale |-> FALSE]}]
            /\ last' = [NoCliOp EXCEPT !.op = "issue"]
  /\ UNCHANGED <<cl, srvSide>>

\* the task is released from taskWait: the switch on the flags
WriteResume ==
  /\ op.kind = "write" /\ op.pc = "wait" /\ op.released
  /\ \E paired \in BOOLEAN :
       LET o == [op EXCEPT !.rc = op.flags]
       IN IF o.rc \in {0, BLE_HS_EDONE} THEN CallReturns("writeValue", o, 0)
          ELSE IF o.rc = BLE_HS_ATT_ERR(BLE_ATT_ERR_ATTR_NOT_LONG)
          THEN WhileRetry("writeValue",
                          [o EXCEPT !.retryCount = @ + 1, !.length = RemoteMtu,
                                    !.retries = @ + 1])
          ELSE IF o.rc \in InsufficientSecurity
          THEN SecureAndRetry("writeValue", o, paired)
          ELSE CallReturns("writeValue", o, o.rc)
  /\ UNCHANGED <<cl, srvSide>>

\* BLEUtils::taskRelease(taskData, rc) by a callback of the request q; a
\* request of a call that has returned points to a BLETaskData that is gone
TaskRelease(q, rc, name) ==
  IF q.stale
  THEN /\ last' = [NoCliOp EXCEPT !.op = name, !.rc = rc, !.ub = TRUE]
       /\ UNCHANGED op
  ELSE /\ op' = [op EXCEPT !.flags = rc, !.released = TRUE]
       /\ last' = [NoCliOp EXCEPT !.op = name, !.rc = rc]

\* onWriteCB: the stack ends a write request with a status
OnWriteCB ==
  /\ gattc.up
  /\ \E q \in gattc.pend, status \in EndStatuses :
       /\ q.proc \in {"write", "write_long"}
       /\ gattc' = [gattc EXCEPT !.pend = @ \ {q}]
       /\ IF status # BLE_HS_ENOTCONN /\ cl.m_connHandle = BLE_HS_CONN_HANDLE_NONE
          THEN /\ last' = [NoCliOp EXCEPT !.op = "onWriteCB", !.rc = status]
               /\ UNCHANGED op
          ELSE TaskRelease(q, status, "onWriteCB")
  /\ UNCHANGED <<cl, srvSide>>

\* readValue() is called
ReadValue ==
  /\ op.pc = "idle"
  /\ op' = [NoCall EXCEPT !.kind = "read", !.pc = "issue", !.retryCount = 1]
  /\ last' = [NoCliOp EXCEPT !.op = "call"]
  /\ UNCHANGED <<cl, gattc, srvSide>>

\* readValue issues the long read and waits
ReadIssue ==
  /\ op.kind = "read" /\ op.pc = "issue"
  /\ op.requests < MaxRequests
  /\ \E rc \in IssueRc :
       IF rc # 0 THEN CallReturns("readValue", op, rc)
       ELSE /\ op' = [op EXCEPT !.pc = "wait", !.requests = @ + 1]
            /\ gattc' = [gattc EXCEPT !.pend = @ \cup
                           {[proc |-> "read_long", stale |-> FALSE]}]
            /\ last' = [NoCliOp EXCEPT !.op = "issue"]
  /\ UNCHANGED <<cl, srvSide>>

\* the task is released from taskWait: the switch on the flags. After
\* "attribute not long" the short read is issued and, rc being 0 again, the
\* loop is left
ReadResume ==
  /\ op.kind = "read" /\ op.pc = "wait" /\ op.released
  /\ \E paired \in BOOLEAN, rc2 \in IssueRc :
       LET o == [op EXCEPT !.rc = op.flags]
       IN IF o.rc \in {0, BLE_HS_EDONE}
          THEN /\ op' = [o EXCEPT !.pc = "cache", !.rc = 0]
               /\ last' = [NoCliOp EXCEPT !.op = "read done"]
               /\ UNCHANGED gattc
          ELSE IF o.rc = BLE_HS_ATT_ERR(BLE_ATT_ERR_ATTR_NOT_LONG)
          THEN IF rc2 # 0 THEN CallReturns("readValue", o, rc2)
               ELSE /\ op' = [o EXCEPT !.pc = "cache", !.rc = 0, !.retryCount = @ + 1,
                                       !.requests = @ + 1, !.retries = @ + 1]
                    /\ gattc' = [gattc EXCEPT !.pend = @ \cup
                                   {[proc |-> "read", stale |-> FALSE]}]
                    /\ last' = [NoCliOp EXCEPT !.op = "issue"]
          ELSE IF o.rc \in InsufficientSecurity
          THEN SecureAndRetry("readValue", o, paired)
          ELSE CallReturns("readValue", o, o.rc)
  /\ UNCHANGED <<cl, srvSide>>

\* readValue caches the value it has and returns it
ReadReturn ==
  /\ op.kind = "read" /\ op.pc = "cache"
  /\ cl' = [cl EXCEPT !.m_value = op.value]
  /\ CallReturns("readValue", op, 0)
  /\ UNCHANGED srvSide

\* onReadCB with status 0 and an attribute: a fragment of the long read, or
\* the response to the short read
OnReadCBData ==
  /\ gattc.up
  /\ cl.m_connHandle # BLE_HS_CONN_HANDLE_NONE
  /\ \E q \in gattc.pend, data_len \in 1 .. RemoteMtu :
       /\ q.proc \in {"read", "read_long"}
       /\ IF q.stale
          THEN /\ gattc' = [gattc EXCEPT !.pend = @ \ {q}]
               /\ last' = [NoCliOp EXCEPT !.op = "onReadCB", !.ub = TRUE]
               /\ UNCHANGED op
          ELSE IF op.value + data_len > BLE_ATT_ATTR_MAX_LEN
          THEN /\ gattc' = [gattc EXCEPT !.pend = @ \ {q}]
               /\ TaskRelease(q, BLE_ATT_ERR_INVALID_ATTR_VALUE_LEN, "onReadCB")
          ELSE /\ gattc' = IF q.proc = "read" THEN [gattc EXCEPT !.pend = @ \ {q}]
                           ELSE gattc
               /\ op' = [op EXCEPT !.value = @ + data_len]
               /\ last' = [NoCliOp EXCEPT !.op = "onReadCB", !.value = data_len]
  /\ UNCHANGED <<cl, srvSide>>

\* onReadCB with the status that ends a read request
OnReadCBEnd ==
  /\ gattc.up
  /\ cl.m_connHandle # BLE_HS_CONN_HANDLE_NONE
  /\ \E q \in gattc.pend, status \in EndStatuses \ {0} :
       /\ q.proc \in {"read", "read_long"}
       /\ q.proc = "read" => status # BLE_HS_EDONE
       /\ gattc' = [gattc EXCEPT !.pend = @ \ {q}]
       /\ TaskRelease(q, status, "onReadCB")
  /\ UNCHANGED <<cl, srvSide>>

\* retrieveServices(): the discovery is started and the task waits
RetrieveServices ==
  /\ op.pc = "idle"
  /\ IF cl.m_connHandle = BLE_HS_CONN_HANDLE_NONE
     THEN /\ CallReturns("retrieveServices", NoCall, BLE_HS_ENOTCONN)
          /\ UNCHANGED cl
     ELSE \E rc \in IssueRc :
            IF rc # 0
            THEN /\ CallReturns("retrieveServices", NoCall, rc)
                 /\ cl' = [cl EXCEPT !.m_lastErr = rc]
            ELSE /\ op' = [NoCall EXCEPT !.kind = "disc", !.pc = "wait", !.requests = 1]
                 /\ gattc' = [gattc EXCEPT !.pend = @ \cup
                                {[proc |-> "disc", stale |-> FALSE]}]
                 /\ last' = [NoCliOp EXCEPT !.op = "issue"]
                 /\ UNCHANGED cl
  /\ UNCHANGED srvSide

\* the task is released from taskWait in retrieveServices
DiscResume ==
  /\ op.kind = "disc" /\ op.pc = "wait" /\ op.released
  /\ IF op.flags \in {0, BLE_HS_EDONE}
     THEN /\ CallReturns("retrieveServices", op, 0)
          /\ UNCHANGED cl
     ELSE /\ CallReturns("retrieveServices", op, op.flags)
          /\ cl' = [cl EXCEPT !.m_lastErr = op.flags]
  /\ UNCHANGED srvSide

\* serviceDiscoveredCB: a service is found (status 0), or the discovery ends
ServiceDiscoveredCB ==
  /\ gattc.up
  /\ cl.m_connHandle # BLE_HS_CONN_HANDLE_NONE
  /\ \E q \in gattc.pend, status \in {0, BLE_HS_EDONE, BLE_HS_ETIMEOUT} :
       /\ q.proc = "disc"
       /\ IF status = 0
          THEN /\ cl.m_svcVec < MaxRemoteSvcs
               /\ cl' = [cl EXCEPT !.m_svcVec = @ + 1]
               /\ last' = [NoCliOp EXCEPT !.op = "serviceDiscoveredCB"]
               /\ UNCHANGED <<op, gattc>>
          ELSE /\ gattc' = [gattc EXCEPT !.pend = @ \ {q}]
               /\ TaskRelease(q, status, "serviceDiscoveredCB")
               /\ UNCHANGED cl
  /\ UNCHANGED srvSide

\* the link comes up: connect() has returned true
LinkUp ==
  /\ ~gattc.up
  /\ op.pc = "idle"
  /\ gattc' = [gattc EXCEPT !.up = TRUE]
  /\ cl' = [cl EXCEPT !.m_connHandle = 1]
  /\ last' = [NoCliOp EXCEPT !.op = "connected"]
  /\ UNCHANGED <<op, srvSide>>

\* the link is lost and the requests in flight are dropped without a
\* completion
LinkDown_NoCompletion ==
  /\ gattc.up
  /\ gattc' = [up |-> FALSE, pend |-> {}]
  /\ cl' = [cl EXCEPT !.m_connHandle = BLE_HS_CONN_HANDLE_NONE]
  /\ last' = [NoCliOp EXCEPT !.op = "disconnected", !.rc = BLE_HS_ENOTCONN]
  /\ UNCHANGED <<op, srvSide>>

\* the link is lost: the stack ends every request in flight with
\* BLE_HS_ENOTCONN (onWriteCB, onReadCB release the task whatever the
\* handle), then reports the disconnect to the client
LinkDown ==
  /\ gattc.up
  /\ gattc' = [up |-> FALSE, pend |-> {}]
  /\ cl' = [cl EXCEPT !.m_connHandle = BLE_HS_CONN_HANDLE_NONE]
  /\ op' = IF \E q \in gattc.pend : ~q.stale
           THEN [op EXCEPT !.flags = BLE_HS_ENOTCONN, !.released = TRUE]
           ELSE op
  /\ last' = [NoCliOp EXCEPT !.op = "disconnected", !.rc = BLE_HS_ENOTCONN,
                             !.ub = \E q \in gattc.pend : q.stale]
  /\ UNCHANGED srvSide

InitRemote ==
  /\ InitVal
  /\ InitSrv(0, 0, 0, 0)

NextRemote ==
  \/ WriteValue
  \/ WriteIssue
  \/ WriteResume
  \/ OnWriteCB
  \/ ReadValue
  \/ ReadIssue
  \/ ReadResume
  \/ ReadReturn
  \/ OnReadCBData
  \/ OnReadCBEnd
  \/ RetrieveServices
  \/ DiscResume
  \/ ServiceDiscoveredCB
  \/ LinkUp
  \/ LinkDown

\* the client discovers the services of the peer and writes and reads a
\* remote attribute
SpecRemote == InitRemote /\ [][NextRemote]_vars

\* the same with a scheduler that runs a task that is ready
SpecRemoteFair ==
  SpecRemote /\ WF_vars(WriteResume) /\ WF_vars(ReadResume) /\ WF_vars(DiscResume)

(***************************************************************************)
(* The client role: the synchronous connect()                              *)
(***************************************************************************)
\* getLastError()
getLastError == cl.m_lastErr

\* isConnected()
isConnected == cl.m_connHandle # BLE_HS_CONN_HANDLE_NONE

\* the connect attempts the stack has under way
Connecting == {q \in gattc.pend : q.proc = "connect"}

\* ble_gap_conn_cancel(): the attempt under way is cancelled; the stack
\* reports its end later
Cancelled(pend) ==
  {IF q.proc = "connect" THEN [q EXCEPT !.stale = TRUE] ELSE q : q \in pend}

\* setSelfDelete(deleteOnDisconnect, deleteOnConnectFail)
SetSelfDelete ==
  /\ op.pc = "idle" /\ ~cl.deleted
  /\ \E deleteOnConnectFail \in BOOLEAN :
       /\ deleteOnConnectFail # cl.deleteOnConnectFail
       /\ cl' = [cl EXCEPT !.deleteOnConnectFail = deleteOnConnectFail]
  /\ last' = [NoCliOp EXCEPT !.op = "setSelfDelete"]
  /\ UNCHANGED <<op, gattc, srvSide>>

\* connect(address, deleteAttributes, asyncConnect = false, exchangeMTU) up
\* to the taskWait: ble_gap_connect refuses while an attempt is under way
ConnectCall ==
  /\ op.pc = "idle" /\ ~cl.deleted
  /\ \E exchangeMTU \in BOOLEAN :
       IF isConnected
       THEN /\ CallReturns("connect", NoCall, BLE_HS_EDONE)
            /\ UNCHANGED cl
       ELSE \E rc \in (IF Connecting = {} THEN {0} ELSE {BLE_HS_EDONE}) :
              IF rc # 0
              THEN /\ CallReturns("connect", NoCall, rc)
                   /\ cl' = [cl EXCEPT !.exchangeMTU = exchangeMTU, !.m_lastErr = rc]
              ELSE /\ op' = [NoCall EXCEPT !.kind = "connect", !.pc = "wait"]
                   /\ cl' = [cl EXCEPT !.exchangeMTU = exchangeMTU,
                                       !.m_pTaskData = TRUE]
                   /\ gattc' = [gattc EXCEPT !.pend = @ \cup
                                  {[proc |-> "connect", stale |-> FALSE]}]
                   /\ last' = [NoCliOp EXCEPT !.op = "issue"]
  /\ UNCHANGED srvSide

\* the end of handleGapEvent: the task m_pTaskData pointed to when the
\* handler began is released with rc
ReleaseTaskData(name, rc) ==
  IF cl.m_pTaskData
  THEN /\ op' = [op EXCEPT !.flags = rc, !.released = TRUE]
       /\ last' = [NoCliOp EXCEPT !.op = name, !.rc = rc]
  ELSE /\ last' = [NoCliOp EXCEPT !.op = name, !.rc = rc]
       /\ UNCHANGED op

\* handleGapEvent, BLE_GAP_EVENT_CONNECT: the attempt ends with a status;
\* mtuRc: what ble_gattc_exchange_mtu returns
GapConnectEvent ==
  \E q \in Connecting, status \in {0, BLE_HS_ETIMEOUT}, mtuRc \in {0, BLE_HS_ENOTCONN} :
    /\ IF isConnected \/ ~cl.m_pTaskData
       THEN /\ gattc' = [gattc EXCEPT !.pend = @ \ {q}]
            /\ last' = [NoCliOp EXCEPT !.op = "terminate"]
            /\ UNCHANGED <<cl, op>>
       ELSE IF status = 0
       THEN IF cl.exchangeMTU
            THEN IF mtuRc # 0
                 THEN /\ gattc' = [gattc EXCEPT !.up = TRUE, !.pend = @ \ {q}]
                      /\ cl' = [cl EXCEPT !.m_connHandle = 1, !.m_lastErr = mtuRc]
                      /\ ReleaseTaskData("connectEvent", mtuRc)
                 ELSE /\ gattc' = [gattc EXCEPT !.up = TRUE,
                                     !.pend = (@ \ {q}) \cup
                                        {[proc |-> "mtu", stale |-> FALSE]}]
                      /\ cl' = [cl EXCEPT !.m_connHandle = 1]
                      /\ last' = [NoCliOp EXCEPT !.op = "connectEvent"]
                      /\ UNCHANGED op
            ELSE /\ mtuRc = 0
                 /\ gattc' = [gattc EXCEPT !.up = TRUE, !.pend = @ \ {q}]
                 /\ cl' = [cl EXCEPT !.m_connHandle = 1]
                 /\ ReleaseTaskData("connectEvent", 0)
       ELSE /\ mtuRc = 0
            /\ gattc' = [gattc EXCEPT !.pend = @ \ {q}]
            /\ cl' = [cl EXCEPT !.m_connHandle = BLE_HS_CONN_HANDLE_NONE]
            /\ ReleaseTaskData("connectEvent", status)
    /\ UNCHANGED srvSide

\* handleGapEvent, BLE_GAP_EVENT_MTU: the MTU exchange has ended
GapMtuEvent ==
  /\ \E q \in gattc.pend :
       /\ q.proc = "mtu"
       /\ gattc' = [gattc EXCEPT !.pend = @ \ {q}]
  /\ IF isConnected
     THEN ReleaseTaskData("mtuEvent", 0)
     ELSE /\ last' = [NoCliOp EXCEPT !.op = "mtuEvent"]
          /\ UNCHANGED op
  /\ UNCHANGED <<cl, srvSide>>

\* handleGapEvent, BLE_GAP_EVENT_DISCONNECT: the link is lost
GapDisconnectEvent ==
  /\ gattc.up
  /\ \E reason \in {BLE_HS_ENOTCONN, BLE_HS_ETIMEOUT} :
       ReleaseTaskData("disconnected", reason)
  /\ gattc' = [up |-> FALSE, pend |-> Connecting]
  /\ cl' = [cl EXCEPT !.m_connHandle = BLE_HS_CONN_HANDLE_NONE]
  /\ UNCHANGED srvSide

\* connect(): the taskWait ends, because the event handler released the
\* task or because m_connectTimeout + 1000 ms have passed (timedOut); on a
\* timeout the attempt is cancelled unless the link is up
ConnectWake ==
  /\ op.kind = "connect" /\ op.pc = "wait"
  /\ \E timedOut \in BOOLEAN :
       /\ timedOut = ~op.released
       /\ LET cancel == timedOut /\ ~isConnected
          IN /\ gattc' = IF cancel THEN [gattc EXCEPT !.pend = Cancelled(@)]
                         ELSE gattc
             /\ op' = [op EXCEPT !.pc = "woken", !.timeout = timedOut,
                                 !.cancel = cancel,
                                 !.flags = IF ~timedOut THEN @
                                           ELSE IF isConnected THEN 0
                                           ELSE BLE_HS_ETIMEOUT]
             /\ last' = [NoCliOp EXCEPT !.op = "taskWait", !.timeout = timedOut,
                                        !.cancel = cancel]
  /\ UNCHANGED <<cl, srvSide>>

\* connect() after the taskWait: m_pTaskData = nullptr, rc = taskData.m_flags
\* and the return
ConnectResume ==
  /\ op.kind = "connect" /\ op.pc = "woken"
  /\ cl' = [cl EXCEPT !.m_pTaskData = FALSE,
                      !.m_lastErr = IF op.flags # 0 THEN op.flags ELSE @,
                      !.deleted = (op.flags # 0 /\ cl.deleteOnConnectFail)]
  /\ op' = NoCall
  /\ last' = [NoCliOp EXCEPT !.op = "connect",
                             !.ret = (op.flags = 0 /\ isConnected),
                             !.rc = op.flags,
                             !.timeout = op.timeout, !.cancel = op.cancel]
  /\ UNCHANGED <<gattc, srvSide>>

\* BLE_HS_ERR_HCI_BASE + BLE_ERR_PINKEY_MISSING
PinkeyMissing == BLE_HS_ERR_HCI_BASE + BLE_ERR_PINKEY_MISSING

\* secureConnection() returns with the flags of its BLETaskData
SecureReturns(o) ==
  /\ op' = NoCall
  /\ cl' = [cl EXCEPT !.m_pTaskData = FALSE,
                      !.m_lastErr = IF o.flags # 0 THEN o.flags ELSE @]
  /\ last' = [NoCliOp EXCEPT !.op = "secureConnection", !.ret = (o.flags = 0),
                             !.rc = o.flags, !.encOk = o.encOk]

\* secureConnection(async = false) up to the taskWait; started: what
\* BLEDevice::startSecurity returns
SecureConnection ==
  /\ op.pc = "idle" /\ ~cl.deleted
  /\ \E started \in (IF gattc.up THEN BOOLEAN ELSE {FALSE}) :
       LET o == [NoCall EXCEPT !.kind = "secure", !.pc = "wait",
                               !.flags = BLE_HS_ENOTCONN, !.retryCount = 1]
       IN IF started
          THEN /\ op' = o
               /\ cl' = [cl EXCEPT !.m_pTaskData = TRUE]
               /\ gattc' = [gattc EXCEPT !.pend = @ \cup
                              {[proc |-> "enc", stale |-> FALSE]}]
               /\ last' = [NoCliOp EXCEPT !.op = "issue"]
          ELSE /\ SecureReturns(o)
               /\ UNCHANGED gattc
  /\ UNCHANGED srvSide

\* secureConnection() after the taskWait: once more if the key was missing,
\* else the return
SecureResume ==
  /\ op.kind = "secure" /\ op.pc = "wait" /\ op.released
  /\ IF op.flags = PinkeyMissing /\ op.retryCount # 0
     THEN \E started \in (IF gattc.up THEN BOOLEAN ELSE {FALSE}) :
            IF started
            THEN /\ op' = [op EXCEPT !.retryCount = @ - 1, !.released = FALSE]
                 /\ gattc' = [gattc EXCEPT !.pend = @ \cup
                                {[proc |-> "enc", stale |-> FALSE]}]
                 /\ last' = [NoCliOp EXCEPT !.op = "retry", !.rc = op.flags]
                 /\ UNCHANGED cl
            ELSE /\ SecureReturns(op)
                 /\ UNCHANGED gattc
     ELSE /\ SecureReturns(op)
          /\ UNCHANGED gattc
  /\ UNCHANGED srvSide

\* handleGapEvent, BLE_GAP_EVENT_ENC_CHANGE: the security procedure ends
\* with a status; found: ble_gap_conn_find knows the connection
GapEncChange ==
  /\ isConnected
  /\ \E q \in gattc.pend, status \in {0, PinkeyMissing, BLE_HS_ETIMEOUT},
        found \in BOOLEAN :
       /\ q.proc = "enc"
       /\ gattc' = [gattc EXCEPT !.pend = @ \ {q}]
       /\ LET rc == IF status \in {0, PinkeyMissing} /\ ~found THEN 0 ELSE status
          IN IF cl.m_pTaskData
             THEN /\ op' = [op EXCEPT !.flags = rc, !.released = TRUE,
                                      !.encOk = @ \/ (status = 0 /\ op.kind = "secure")]
                  /\ last' = [NoCliOp EXCEPT !.op = "encChange", !.rc = rc]
             ELSE /\ last' = [NoCliOp EXCEPT !.op = "encChange", !.rc = rc]
                  /\ UNCHANGED op
  /\ UNCHANGED <<cl, srvSide>>

\* handleGapEvent, BLE_GAP_EVENT_IDENTITY_RESOLVED: the peer's identity
\* address was resolved during pairing
GapIdentityResolved ==
  /\ gattc.up
  /\ \E q \in gattc.pend : q.proc = "enc"
  /\ ReleaseTaskData("identityResolved", 0)
  /\ UNCHANGED <<cl, gattc, srvSide>>

NextClient ==
  \/ SetSelfDelete
  \/ ConnectCall
  \/ GapConnectEvent
  \/ GapMtuEvent
  \/ GapDisconnectEvent
  \/ ConnectWake
  \/ ConnectResume

\* the client connects, synchronously, and loses the link
SpecClient == InitRemote /\ [][NextClient]_vars

NextSecure ==
  \/ ConnectCall
  \/ GapConnectEvent
  \/ GapMtuEvent
  \/ GapDisconnectEvent
  \/ ConnectWake
  \/ ConnectResume
  \/ SecureConnection
  \/ SecureResume
  \/ GapEncChange
  \/ GapIdentityResolved

\* the client connects and secures the connection, synchronously
SpecSecure == InitRemote /\ [][NextSecure]_vars

(***************************************************************************)
(* Properties of the server                                                *)
(***************************************************************************)
\* C2: ble_gatts_reset is never called while a peer connection is open, and a
\* disconnect that leaves a peer connected while the tree has changed makes
\* no reset call and leaves m_svcChanged set
C2_NoResetWhileConnected ==
  [][/\ (\E i \in 1 .. Len(last'.calls) : last'.calls[i] = "ble_gatts_reset")
          => conns' = {}
     /\ (last'.op = "disconnect" /\ m_svcChanged /\ conns' # {})
          => (m_svcChanged' /\ last'.calls = <<>> /\ m_gattsStarted' = m_gattsStarted)
    ]_vars

\* C2: a peer disconnected while the tree had changed and another peer stayed
\* connected: the rebuild was refused
C2_Witness ==
  /\ last.op = "disconnect"
  /\ conns # {}
  /\ m_svcChanged
  /\ m_gattsStarted
  /\ last.calls = <<>>

\* C3: no step frees an object that is registered with the stack and
\* leaves a peer connection open
C3_NotFreedWhileConnected ==
  [][\A t \in last'.freed : Handles(attTab, t[1], t[2]) # {} => conns' = {}]_vars

\* C4: when removeCharacteristic(c, true) of a registered characteristic on
\* a started server with a peer connected is followed by the disconnect of the last peer, that disconnect
\* resets the stack and c is in no service's getCharacteristics() after it
C4_AbsentAfterRebuild ==
  [][\A c \in ChrIds :
       (/\ last.op = "removeCharacteristic"
        /\ last.obj = c
        /\ last.del
        /\ m_gattsStarted
        /\ Handles(attTab, "chr", c) # {}
        /\ conns # {}
        /\ last'.op = "disconnect"
        /\ conns' = {})
         => /\ \E i \in 1 .. Len(last'.calls) : last'.calls[i] = "ble_gatts_reset"
            /\ \A s \in SvcIds : ~Contains(services'[s].m_vChars, c)
    ]_vars

\* C8: when start() of a service has returned true and is called again with
\* nothing done in between, the second call returns true, leaves the compiled
\* record as it was and makes no call to the stack
C8_SecondStartSkips ==
  [][(/\ last.op = "serviceStart"
      /\ last.ret
      /\ last'.op = "serviceStart"
      /\ last'.obj = last.obj)
       => /\ last'.ret
          /\ services'[last.obj].def = services[last.obj].def
          /\ last'.calls = <<>>
    ]_vars

\* C9: on a started server with one peer connected, notify() with no value
\* and no connection handle calls ble_gatts_chr_updated and nothing else,
\* and calls no onStatus; onStatus is called only in a step that delivers a
\* notify-tx event of a connected peer
C9_NotifyNoValue ==
  [][/\ (/\ last'.op = "notify"
         /\ last'.arg.isNotification
         /\ ~last'.arg.hasValue
         /\ last'.arg.connHandle = BLE_HS_CONN_HANDLE_NONE
         /\ m_gattsStarted
         /\ Cardinality(conns) = 1)
          => /\ last'.calls = <<"ble_gatts_chr_updated">>
             /\ last'.events = <<>>
             /\ last'.onStatus = <<>>
     /\ Len(last'.onStatus) > 0
          => \E i \in 1 .. Len(last'.events) : last'.events[i].conn \in conns
    ]_vars

\* C9: notify() with no value ran on a started server with one peer, and the
\* stack has the update to send
C9_Witness ==
  /\ last.op = "notify"
  /\ last.arg.isNotification
  /\ ~last.arg.hasValue
  /\ last.arg.connHandle = BLE_HS_CONN_HANDLE_NONE
  /\ last.calls = <<"ble_gatts_chr_updated">>
  /\ m_gattsStarted
  /\ Cardinality(conns) = 1
  /\ upd # {}

\* C10: in a step whose notify-tx events are all of registered
\* characteristics, every characteristic gets one onStatus call per event
\* that ends a send made on it: every event of its sends but an indication's
\* first, of status 0
C10_OnStatusOncePerSend ==
  [][(\A i \in 1 .. Len(last'.events) : StackReads(last'.events[i].attr_handle))
       => \A c \in ChrIds :
            Cardinality({j \in 1 .. Len(last'.onStatus) : last'.onStatus[j].chr = c})
              = Cardinality({i \in 1 .. Len(last'.events) :
                               /\ last'.events[i].src = c
                               /\ ~(last'.events[i].indication
                                      /\ last'.events[i].status = 0)})
    ]_vars

\* C11: a step that resets the stack and rebuilds ends with the server
\* started and the services-changed flag cleared
C11_StableAfterRebuild ==
  [][(\E i \in 1 .. Len(last'.calls) : last'.calls[i] = "ble_gatts_reset")
       => (m_gattsStarted' /\ ~m_svcChanged')
    ]_vars

\* C12: when the rebuild of the last step left a service of the server
\* unregistered (its start() failed), the next step does not clear the
\* services-changed flag
C12_NotClearedAfterFailedRebuild ==
  [][(/\ last.op = "disconnect"
      /\ \E i \in 1 .. Len(last.calls) : last.calls[i] = "ble_gatts_reset"
      /\ \E i \in 1 .. Len(m_svcVec) :
           /\ services[m_svcVec[i]].removed = 0
           /\ ~Contains(svcDefs, m_svcVec[i])
      /\ m_svcChanged)
       => m_svcChanged'
    ]_vars

\* C13: every slot of the peer table holds the sentinel or the handle of an
\* open connection, and no handle is in two slots
C13_PeerTable ==
  \A i \in Slots :
    \/ m_connectedPeers[i] = BLE_HS_CONN_HANDLE_NONE
    \/ /\ m_connectedPeers[i] \in conns
       /\ \A j \in Slots : j # i => m_connectedPeers[j] # m_connectedPeers[i]

\* C13: a peer reconnected after a disconnect, and every slot is taken
C13_Witness ==
  /\ last.op = "connect"
  /\ last.obj = 1
  /\ m_connectedPeers = <<1, 2>>
  /\ conns = {1, 2}

\* C15: on a started server, every call that changes the tree (a service,
\* characteristic or descriptor is added, removed or freed) leaves the
\* services-changed flag set
C15_MutationSetsFlag ==
  [][(/\ m_gattsStarted
      /\ last'.op \in {"createService", "addService", "removeService",
                       "createCharacteristic", "addCharacteristic",
                       "removeCharacteristic", "createDescriptor", "addDescriptor",
                       "removeDescriptor"}
      /\ <<m_svcVec', services', chars', descs'>> # <<m_svcVec, services, chars, descs>>)
       => m_svcChanged'
    ]_vars

\* C16: a change of the tree while a peer is connected resets nothing and
\* reports no error, a disconnect that leaves a peer connected resets
\* nothing, and the disconnect that leaves no peer connected while the flag
\* is set resets the stack and rebuilds
C16_DeferredRebuild ==
  [][/\ (conns' # {} /\ last'.op # "connect")
          => /\ \A i \in 1 .. Len(last'.calls) : last'.calls[i] # "ble_gatts_reset"
             /\ m_gattsStarted' \/ ~m_gattsStarted
             /\ (last'.op = "disconnect" => last'.ret /\ attTab' = attTab)
     /\ (last'.op = "disconnect" /\ m_svcChanged /\ conns' = {})
          => /\ \E i \in 1 .. Len(last'.calls) : last'.calls[i] = "ble_gatts_reset"
             /\ attTab' = <<>>
             /\ ~m_gattsStarted'
    ]_vars

\* C16: the disconnect of the last peer, with the flag set, has reset the
\* stack
C16_Witness ==
  /\ last.op = "disconnect"
  /\ conns = {}
  /\ m_svcChanged
  /\ \E i \in 1 .. Len(last.calls) : last.calls[i] = "ble_gatts_reset"
  /\ attTab = <<>>

\* C17: when start() of a service that was not started fails in
\* ble_gatts_count_cfg or ble_gatts_add_svcs, it returns false and
\* isStarted() (type > 0) is false after it
C17_FailedStartUnstarted ==
  [][(/\ last'.op = "serviceStart"
      /\ services[last'.obj].type = 0
      /\ Len(last'.calls) > 0
      /\ ~last'.ret)
       => services'[last'.obj].type = 0
    ]_vars

\* C14: a successful connect event that finds every slot of the peer table
\* taken reports a failure, does not call onConnect and leaves the table as
\* it was
C14_ConnectRefusedWhenFull ==
  [][(/\ last'.op = "connect"
      /\ last'.obj \in conns' \ conns
      /\ \A i \in Slots : m_connectedPeers[i] # BLE_HS_CONN_HANDLE_NONE)
       => /\ ~last'.ret
          /\ \A i \in 1 .. Len(last'.calls) : last'.calls[i] # "onConnect"
          /\ m_connectedPeers' = m_connectedPeers
    ]_vars

(***************************************************************************)
(* Properties of the value under interleaved tasks, and of its lengths     *)
(***************************************************************************)
\* C18: a reader that takes its snapshot under the critical section while a
\* setValue of a value that fits is under way sees the complete old value or
\* the complete new value
C18_SnapshotOldOrNew ==
  [][(/\ last'.op = "read"
      /\ wr.pc # "idle"
      /\ Len(wr.value) \in 1 .. m_attr_max_len)
       => last'.arg \in {wr.old, wr.value}
    ]_vars

\* C19: deepCopy leaves in the copy the bytes and the length the source held
\* before or after the setValue that ran during the copy, and its memcpy
\* stays inside the block it allocated for the copy
C19_CopyIsSnapshot ==
  [][(last'.op = "deepCopy" /\ cp.pc = "critical")
       => /\ Data(dst') \in (IF wr.pc = "idle" THEN {Data(AttVal)}
                             ELSE {wr.old, wr.value})
          /\ dst'.m_attr_len = Len(Data(dst'))
          /\ m_attr_len + 1 <= Len(cp.res.mem)
    ]_vars

\* C20: after any sequence of construction, setValue, append, copy and move
\* the length of a value is at most its maximum length, which is at most
\* BLE_ATT_ATTR_MAX_LEN
C20_LengthWithinMax ==
  \A v \in {AttVal, dst} :
    /\ v.m_attr_len <= v.m_attr_max_len
    /\ v.m_attr_max_len <= BLE_ATT_ATTR_MAX_LEN

\* C21: the buffer of a value is never null while its length is greater
\* than 0; in particular the source of a move is left with length 0
C21_BufferWhileLength ==
  \A v \in {AttVal, dst} : v.m_attr_len > 0 => v.m_attr_value.ptr # "null"

\* C22: whenever a subscribe event calls onSubscribe, the callback receives
\* the bitmask of the peer's new state: 0 unsubscribed, 1 notifications
\* only, 2 indications only, 3 both
C22_SubscribeBitmask ==
  [][last'.op = "subscribe"
       => LET e == last'.events[1]
          IN \A i \in 1 .. Len(last'.arg) :
               last'.arg[i].subValue = e.cur_notify + 2 * e.cur_indicate
    ]_vars

\* C23: with no characteristic or descriptor added or removed since the last
\* start, a rebuild of the tree that start registered, which re-registers
\* the services, registers them in the same relative order as before
C23_SameOrderAfterRebuild ==
  [][(/\ last'.op = "disconnect"
      /\ \E i \in 1 .. Len(last'.calls) : last'.calls[i] = "ble_gatts_reset"
      /\ <<chars', descs'>> = <<chars, descs>>
      /\ Len(attTab) > 0
      /\ attTab = Register(svcDefs)
      /\ \A i \in 1 .. Len(m_svcVec') :
           services'[m_svcVec'[i]].removed = 0 => Contains(svcDefs', m_svcVec'[i]))
       => LET first(seq, x) == MinOf({i \in 1 .. Len(seq) : seq[i] = x})
              both == {x \in SvcIds : Contains(svcDefs, x) /\ Contains(svcDefs', x)}
          IN \A x \in both, y \in both :
               first(svcDefs, x) < first(svcDefs, y)
                 => first(svcDefs', x) < first(svcDefs', y)
    ]_vars

\* C24: a stack callback (here the connect and the disconnect event) inserts
\* nothing into, erases nothing from and frees nothing of the server's
\* collections of services, characteristics and descriptors
C24_NoStructuralChangeInCallback ==
  [][last'.op \in {"connect", "disconnect"}
       => /\ m_svcVec' = m_svcVec
          /\ last'.freed = {}
          /\ \A s \in SvcIds : /\ services'[s].st = services[s].st
                               /\ services'[s].m_vChars = services[s].m_vChars
          /\ \A c \in ChrIds : /\ chars'[c].st = chars[c].st
                               /\ chars'[c].m_vDescriptors = chars[c].m_vDescriptors
          /\ \A d \in DscIds : descs'[d].st = descs[d].st
    ]_vars

(***************************************************************************)
(* Properties of the client role                                           *)
(***************************************************************************)
\* C25: writeValue issues at most one further write request because of
\* "attribute not long" errors, and that request carries MTU - 3 bytes
C25_RetriedOnce ==
  [][(op.kind = "write" /\ op.pc = "issue" /\ op'.pc = "wait" /\ op.retries > 0)
       => (op.retries = 1 /\ op.length = RemoteMtu)
    ]_vars

\* C26: within one writeValue or readValue, the first insufficient-security
\* error leads to one call of secureConnection and, if that succeeds, to a
\* retry; such an error after pairing was attempted ends the call at once
\* with that error (writeValue returns false, readValue caches nothing)
C26_PairOnce ==
  [][/\ op'.secured <= 1
     /\ (/\ op.kind \in {"write", "read"} /\ op.pc = "wait" /\ op.released
         /\ op.flags \in InsufficientSecurity
         /\ op'.pc # "wait")
          => IF op.secured = 0
             THEN \/ op'.pc = "issue" /\ op'.secured = 1
                  \/ op'.pc = "idle" /\ last'.secured = 1 /\ last'.rc = op.flags
                       /\ ~last'.ret
             ELSE /\ op'.pc = "idle" /\ last'.rc = op.flags /\ ~last'.ret
                  /\ last'.secured = 1
                  /\ cl'.m_value = cl.m_value
    ]_vars

\* a call has returned with the insufficient-security error it met after it
\* had paired and retried
C26_Witness ==
  /\ last.op \in {"writeValue", "readValue"}
  /\ last.rc \in InsufficientSecurity
  /\ last.secured = 1
  /\ last.requests >= 2

\* C27: when readValue returns a value, none of the read requests it issued
\* is still in flight
C27_ReadWaitsForEveryRequest ==
  [][(op.kind = "read" /\ op'.pc = "idle" /\ last'.ret) => last'.pending = 0]_vars

\* C29: a task blocked in retrieveServices, readValue or writeValue when the
\* link is lost is eventually released
C29_ReleasedOnDisconnect ==
  (op.pc = "wait" /\ ~gattc.up) ~> (op.pc # "wait")

\* a task is blocked, the link is lost and the task has been released with
\* the not-connected status
C29_Witness ==
  op.pc = "wait" /\ ~gattc.up /\ op.released /\ op.flags = BLE_HS_ENOTCONN

\* C28: a synchronous connect() whose wait runs out of time before the link
\* is up releases the task, asks the stack to cancel the attempt, returns
\* false and records the timeout error (the client is deleted instead if it
\* is set to delete itself on a failed connect)
C28_ConnectTimeout ==
  [][(last'.op = "connect" /\ last'.timeout /\ last'.cancel)
       => /\ op'.pc = "idle" /\ ~cl'.m_pTaskData
          /\ \A q \in Connecting' : q.stale
          /\ ~last'.ret
          /\ getLastError' = BLE_HS_ETIMEOUT
          /\ cl'.deleted = cl.deleteOnConnectFail
    ]_vars

\* C30: after the rebuild has run, every live service is still in the
\* server's collection, every delete-pending service has been deleted, and
\* every hide-pending service is kept and registered with the stack
C30_AfterRebuild ==
  [][(/\ last'.op = "disconnect"
      /\ \E i \in 1 .. Len(last'.calls) : last'.calls[i] = "ble_gatts_reset")
       => \A i \in 1 .. Len(m_svcVec) :
            LET s == m_svcVec[i]
            IN /\ services[s].removed = 0 => Contains(m_svcVec', s)
               /\ services[s].removed = NIMBLE_ATT_REMOVE_DELETE
                    => ~Contains(m_svcVec', s) /\ services'[s].st # "live"
               /\ services[s].removed = NIMBLE_ATT_REMOVE_HIDE
                    => /\ Contains(m_svcVec', s)
                       /\ services'[s].removed = NIMBLE_ATT_REMOVE_HIDE
                       /\ Contains(svcDefs', s)
    ]_vars

(***************************************************************************)
(* Properties of BLEService::start()                                       *)
(***************************************************************************)
\* C31: after a successful start() of a service with live characteristics,
\* the compiled record holds exactly the live characteristics in insertion
\* order and a sentinel entry, each with its live descriptors in insertion
\* order and a sentinel entry
C31_RecordIsLiveMembership ==
  [][(/\ last'.op = "serviceStart" /\ last'.ret
      /\ Len(Compile(services'[last'.obj])) > 0)
       => LET sv == services'[last'.obj]
          IN /\ sv.chrp = "valid"
             /\ Record(sv) = WithSentinels(Compile(sv))
    ]_vars

C33_FastPathOnlyIfUnchanged ==
  [][(last'.op = "serviceStart" /\ last'.ret /\ last'.calls = <<>>)
       => LET sv == services[last'.obj]
          IN sv.chrp = "valid" /\ sv.def = Compile(sv)
    ]_vars

\* C37: whenever start() submits the definition to the stack, its
\* characteristic array is absent or the one compiled in that call, never an
\* array that was deleted
C37_NoDiscardedArray ==
  [][(last'.op = "serviceStart" /\ Len(last'.calls) > 0)
       => LET sv == services'[last'.obj]
          IN \/ sv.chrp = "null"
             \/ sv.chrp = "valid" /\ sv.def = Compile(sv)
    ]_vars

\* C34: whenever onWrite runs for a write access, the stored value is the
\* bytes of that write
C34_OnWriteAfterCommit ==
  [][(last'.op = "write" /\ last'.onWrite > 0) => Data(AttVal') = last'.arg]_vars

\* C35: the wait of a synchronous secureConnection() is ended only by the
\* encryption-change event or by the disconnect, not by another GAP event
C35_WaitEndsByEncChange ==
  [][(op.kind = "secure" /\ op.pc = "wait" /\ ~op.released /\ op'.released)
       => last'.op \in {"encChange", "disconnected"}
    ]_vars

\* C36: whenever a synchronous connect() that waited returns false, the
\* client is not connected and the link is not up
C36_FalseMeansNotConnected ==
  [][(op.kind = "connect" /\ last'.op = "connect" /\ ~last'.ret)
       => ~isConnected' /\ ~gattc'.up
    ]_vars

(***************************************************************************)
(* Properties of the peer table's readers                                  *)
(***************************************************************************)
\* C40: for every index below getConnectedCount(), getPeerInfo(index) returns
\* the info of the index-th connected peer in table order, which is the
\* index-th entry of getPeerDevices()
C40_PeerInfoByIndex ==
  \A index \in 0 .. getConnectedCount(m_connectedPeers) - 1 :
    getPeerInfo(m_connectedPeers, conns, index)
      = getPeerDevices(m_connectedPeers)[index + 1]

C38_HandlesDistinct ==
  [][(last'.op = "serverStart" /\ ~m_gattsStarted /\ m_gattsStarted')
       => /\ \A i, j \in 1 .. Len(CharOrder') :
               (i # j /\ chars'[CharOrder'[i]].m_handle # 0)
                 => chars'[CharOrder'[i]].m_handle # chars'[CharOrder'[j]].m_handle
          /\ \A i \in 1 .. Len(m_svcVec') :
               LET sv == services'[m_svcVec'[i]]
               IN \A k \in 1 .. Len(sv.m_vChars) :
                    chars'[sv.m_vChars[k]].m_handle # 0
                      => getCharacteristicByHandle(sv, chars',
                           chars'[sv.m_vChars[k]].m_handle) = sv.m_vChars[k]
    ]_vars

====
